---- MODULE Spec2Model ----
(***************************************************************************)
(* Movement-and-collision core of the platformer: PhysicsComponent,        *)
(* MovementComponent, Player, InputManager, PhysicsSystem and the          *)
(* GameScene tick.                                                         *)
(*                                                                         *)
(* Numbers.  The code computes in floating point; the model computes the   *)
(* same expressions exactly, in decimal fixed point:                       *)
(*   time      an integer count of 1/100 ms  (16.67 ms = 1667)             *)
(*   velocity  an integer count of 1/10000 px/s                            *)
(*   length    a record [p, n] meaning p + n / 10^9 px, 0 <= n < 10^9      *)
(* so that velocity * seconds is an exact length and no product leaves     *)
(* the 32-bit integers of the model checker.                               *)
(***************************************************************************)
EXTENDS Integers, Sequences, FiniteSets, TLC

VARIABLES physics, movement, jumpBufferTime, input, rect, delta, pc, ticks, hist

vars == <<physics, movement, jumpBufferTime, input, rect, delta, pc, ticks, hist>>

----------------------------------------------------------------------------
(* Fixed-point arithmetic *)

Nano == 1000 * 1000 * 1000

VelUnit == 100 * 100

Norm(p, n) == [p |-> p + (n \div Nano), n |-> n % Nano]

Px(k) == [p |-> k, n |-> 0]

LAdd(a, b) == Norm(a.p + b.p, a.n + b.n)

LSub(a, b) == Norm(a.p - b.p, a.n - b.n)

LAddPx(a, k) == [p |-> a.p + k, n |-> a.n]

LLt(a, b) == a.p < b.p \/ (a.p = b.p /\ a.n < b.n)

LLe(a, b) == a.p < b.p \/ (a.p = b.p /\ a.n <= b.n)

LMin(a, b) == IF LLt(b, a) THEN b ELSE a

LAbs(a) == IF a.p < 0 THEN LSub(Px(0), a) ELSE a

\* Math.floor(a / k) and Math.ceil(a / k) for a whole number k of pixels
LFloorDiv(a, k) == a.p \div k

LCeilDiv(a, k) == IF a.n = 0 /\ a.p % k = 0 THEN a.p \div k ELSE (a.p \div k) + 1

\* v * (d / 1000): a velocity times d hundredths of a millisecond, as a length
Disp(v, d) ==
    LET vh == v \div VelUnit
        vl == v % VelUnit
        a  == vh * d
    IN  Norm(a \div 100000, (a % 100000) * VelUnit + vl * d)

\* acc * (d / 1000): an acceleration in px/s^2 over d hundredths of a ms, as a velocity
VelInc(acc, d) == (acc * d) \div 10

PxPerSec(k) == k * VelUnit

\* milliseconds as a time
Ms(k) == k * 100

----------------------------------------------------------------------------
(* Configuration: config.ts, constants.ts *)

GRAVITY == 980

MAX_VELOCITY_Y == 800

ACCELERATION == 1000

MAX_SPEED == 250

FRICTION == 1000

JUMP_VELOCITY == -500

COYOTE_TIME_MS == 100

JUMP_BUFFER_MS == 100

PLAYER_WIDTH == 32

PLAYER_HEIGHT == 48

TILE_SIZE == 32

\* PHYSICS_EPSILON = 0.001
PHYSICS_EPSILON == [p |-> 0, n |-> Nano \div 1000]

----------------------------------------------------------------------------
(* PhysicsComponent *)

NewPhysics(x, y, w, h) ==
    [px |-> x, py |-> y, vx |-> 0, vy |-> 0, w |-> w, h |-> h, grounded |-> FALSE]

applyGravity(b, d) ==
    LET v == b.vy + VelInc(GRAVITY, d)
    IN  [b EXCEPT !.vy = IF v > PxPerSec(MAX_VELOCITY_Y) THEN PxPerSec(MAX_VELOCITY_Y) ELSE v]

\* constants.ts as the second PhysicsComponent imports it
MAX_FALL_SPEED == 200

MAX_JUMP_SPEED == -200

\* PhysicsComponent.applyGravity of the second PhysicsComponent, the one with rise and
\* fall limits; gravity is the body's gravity field
applyGravityLimited(b, gravity, d) ==
    IF ~b.grounded
    THEN LET v == b.vy + VelInc(gravity, d)
         IN  [b EXCEPT !.vy = IF v < PxPerSec(MAX_FALL_SPEED) THEN PxPerSec(MAX_FALL_SPEED)
                              ELSE IF v > PxPerSec(MAX_JUMP_SPEED) THEN PxPerSec(MAX_JUMP_SPEED)
                              ELSE v]
    ELSE [b EXCEPT !.vy = 0]

updatePosition(b, d) ==
    [b EXCEPT !.px = LAdd(b.px, Disp(b.vx, d)), !.py = LAdd(b.py, Disp(b.vy, d))]

\* the body's box with position as its centre (resolveCollision's bodyBounds)
BodyBounds(b) ==
    [x |-> LAddPx(b.px, -(b.w \div 2)), y |-> LAddPx(b.py, -(b.h \div 2)),
     width |-> b.w, height |-> b.h]

----------------------------------------------------------------------------
(* PhysicsSystem *)

\* an overlap test whose first comparison lets a's left edge meet b's right edge
CheckAABBLeftClosed(a, b) ==
    /\ LLe(a.x, LAddPx(b.x, b.width))
    /\ LLt(b.x, LAddPx(a.x, a.width))
    /\ LLt(a.y, LAddPx(b.y, b.height))
    /\ LLt(b.y, LAddPx(a.y, a.height))

\* an overlap test that counts edges that meet
CheckAABBTouching(a, b) ==
    /\ LLe(a.x, LAddPx(b.x, b.width))
    /\ LLe(b.x, LAddPx(a.x, a.width))
    /\ LLe(a.y, LAddPx(b.y, b.height))
    /\ LLe(b.y, LAddPx(a.y, a.height))

checkAABBCollision(a, b) ==
    /\ LLt(a.x, LAddPx(b.x, b.width))
    /\ LLt(b.x, LAddPx(a.x, a.width))
    /\ LLt(a.y, LAddPx(b.y, b.height))
    /\ LLt(b.y, LAddPx(a.y, a.height))

NoCollision == [collided |-> FALSE, normal |-> <<0, 0>>, overlap |-> Px(0), side |-> "null"]

\* a resolveCollision that pushes the body up and out of the bounds but neither grounds
\* it nor stops it
ResolveCollisionNoGround(body, bounds) ==
    LET bb == BodyBounds(body)
        overlapTop == LSub(LAddPx(bb.y, bb.height), bounds.y)
    IN  IF ~checkAABBCollision(bb, bounds)
        THEN [body |-> body, res |-> NoCollision]
        ELSE [body |-> [body EXCEPT !.py = LSub(body.py, LAdd(overlapTop, PHYSICS_EPSILON))],
              res |-> [collided |-> TRUE, normal |-> <<0, -1>>, overlap |-> overlapTop,
                       side |-> "bottom"]]

\* a resolveCollision that resolves along the smaller of the horizontal overlaps only
\* and keeps the body's horizontal velocity
ResolveCollisionKeepsSpeed(body, bounds) ==
    LET bb == BodyBounds(body)
        overlapLeft == LSub(LAddPx(bb.x, bb.width), bounds.x)
        overlapRight == LSub(LAddPx(bounds.x, bounds.width), bb.x)
    IN  IF ~checkAABBCollision(bb, bounds)
        THEN [body |-> body, res |-> NoCollision]
        ELSE IF LLe(overlapLeft, overlapRight)
        THEN [body |-> [body EXCEPT !.px = LSub(body.px, LAdd(overlapLeft, PHYSICS_EPSILON))],
              res |-> [collided |-> TRUE, normal |-> <<-1, 0>>, overlap |-> overlapLeft,
                       side |-> "right"]]
        ELSE [body |-> [body EXCEPT !.px = LAdd(body.px, LAdd(overlapRight, PHYSICS_EPSILON))],
              res |-> [collided |-> TRUE, normal |-> <<1, 0>>, overlap |-> overlapRight,
                       side |-> "left"]]

\* resolveCollision with the push distance and the velocity rule as parameters: the
\* body is pushed by the least overlap plus margin, and with stop both velocity
\* components are set to 0 on a collision
ResolveCollisionVariant(body, bounds, margin, stop) ==
    LET bb == BodyBounds(body)
        overlapLeft == LSub(LAddPx(bb.x, bb.width), bounds.x)
        overlapRight == LSub(LAddPx(bounds.x, bounds.width), bb.x)
        overlapTop == LSub(LAddPx(bb.y, bb.height), bounds.y)
        overlapBottom == LSub(LAddPx(bounds.y, bounds.height), bb.y)
        minOverlap == LMin(LMin(overlapLeft, overlapRight), LMin(overlapTop, overlapBottom))
        push == LAdd(minOverlap, margin)
        Vx(v) == IF stop THEN 0 ELSE v
        Vy(v) == IF stop THEN 0 ELSE v
    IN  IF ~checkAABBCollision(bb, bounds)
        THEN [body |-> body, res |-> NoCollision]
        ELSE IF minOverlap = overlapLeft
        THEN [body |-> [body EXCEPT !.px = LSub(body.px, push),
                                    !.vx = IF body.vx < 0 THEN Vx(body.vx) ELSE 0,
                                    !.vy = Vy(body.vy)],
              res |-> [collided |-> TRUE, normal |-> <<-1, 0>>, overlap |-> minOverlap,
                       side |-> "right"]]
        ELSE IF minOverlap = overlapRight
        THEN [body |-> [body EXCEPT !.px = LAdd(body.px, push),
                                    !.vx = IF body.vx > 0 THEN Vx(body.vx) ELSE 0,
                                    !.vy = Vy(body.vy)],
              res |-> [collided |-> TRUE, normal |-> <<1, 0>>, overlap |-> minOverlap,
                       side |-> "left"]]
        ELSE IF minOverlap = overlapTop
        THEN [body |-> [body EXCEPT !.py = LSub(body.py, push),
                                    !.vy = IF body.vy < 0 THEN Vy(body.vy) ELSE 0,
                                    !.vx = Vx(body.vx),
                                    !.grounded = TRUE],
              res |-> [collided |-> TRUE, normal |-> <<0, -1>>, overlap |-> minOverlap,
                       side |-> "bottom"]]
        ELSE [body |-> [body EXCEPT !.py = LAdd(body.py, push),
                                    !.vy = IF body.vy > 0 THEN Vy(body.vy) ELSE 0,
                                    !.vx = Vx(body.vx)],
              res |-> [collided |-> TRUE, normal |-> <<0, 1>>, overlap |-> minOverlap,
                       side |-> "top"]]

\* a resolveCollision that pushes by the overlap less PHYSICS_EPSILON
ResolveCollisionInward(body, bounds) ==
    ResolveCollisionVariant(body, bounds, LSub(Px(0), PHYSICS_EPSILON), FALSE)

\* a resolveCollision that brings the body to rest on both axes
ResolveCollisionStops(body, bounds) ==
    ResolveCollisionVariant(body, bounds, PHYSICS_EPSILON, TRUE)

\* returns the body as the call leaves it, and the CollisionResult
resolveCollision(body, bounds) ==
    LET bb == BodyBounds(body)
        overlapLeft == LSub(LAddPx(bb.x, bb.width), bounds.x)
        overlapRight == LSub(LAddPx(bounds.x, bounds.width), bb.x)
        overlapTop == LSub(LAddPx(bb.y, bb.height), bounds.y)
        overlapBottom == LSub(LAddPx(bounds.y, bounds.height), bb.y)
        minOverlap == LMin(LMin(overlapLeft, overlapRight), LMin(overlapTop, overlapBottom))
    IN  IF ~checkAABBCollision(bb, bounds)
        THEN [body |-> body, res |-> NoCollision]
        ELSE IF minOverlap = overlapLeft
        THEN [body |-> [body EXCEPT !.px = LSub(body.px, LAdd(overlapLeft, PHYSICS_EPSILON)),
                                    !.vx = IF body.vx < 0 THEN body.vx ELSE 0],
              res |-> [collided |-> TRUE, normal |-> <<-1, 0>>, overlap |-> minOverlap,
                       side |-> "right"]]
        ELSE IF minOverlap = overlapRight
        THEN [body |-> [body EXCEPT !.px = LAdd(body.px, LAdd(overlapRight, PHYSICS_EPSILON)),
                                    !.vx = IF body.vx > 0 THEN body.vx ELSE 0],
              res |-> [collided |-> TRUE, normal |-> <<1, 0>>, overlap |-> minOverlap,
                       side |-> "left"]]
        ELSE IF minOverlap = overlapTop
        THEN [body |-> [body EXCEPT !.py = LSub(body.py, LAdd(overlapTop, PHYSICS_EPSILON)),
                                    !.vy = IF body.vy < 0 THEN body.vy ELSE 0,
                                    !.grounded = TRUE],
              res |-> [collided |-> TRUE, normal |-> <<0, -1>>, overlap |-> minOverlap,
                       side |-> "bottom"]]
        ELSE [body |-> [body EXCEPT !.py = LAdd(body.py, LAdd(overlapBottom, PHYSICS_EPSILON)),
                                    !.vy = IF body.vy > 0 THEN body.vy ELSE 0],
              res |-> [collided |-> TRUE, normal |-> <<0, 1>>, overlap |-> minOverlap,
                       side |-> "top"]]

\* Phaser's layer.getTileAt for a level given as a set of solid cells: a cell outside
\* the level, or an empty one, is no tile.  The level is a cut of buildTestRoom's kind:
\* a floor (row 5, top at y = 160) and a platform one tile above its right half (row 4,
\* top at y = 128), called the ledge below
Solid(x, y) ==
    \/ (y = 5 /\ x \in 0..7)
    \/ (y = 4 /\ x \in 4..7)

TileBounds(x, y) ==
    [x |-> Px(x * TILE_SIZE), y |-> Px(y * TILE_SIZE), width |-> TILE_SIZE, height |-> TILE_SIZE]

\* the cells the two nested loops visit, rows outermost
RECURSIVE CellsFrom(_, _, _, _, _)
CellsFrom(x, y, startX, endX, endY) ==
    IF y > endY THEN <<>>
    ELSE IF x > endX THEN CellsFrom(startX, y + 1, startX, endX, endY)
    ELSE <<(<<x, y>>)>> \o CellsFrom(x + 1, y, startX, endX, endY)

RECURSIVE ResolveCells(_, _)
ResolveCells(body, cells) ==
    IF cells = <<>> THEN body
    ELSE LET c == Head(cells)
         IN  IF Solid(c[1], c[2])
             THEN ResolveCells(resolveCollision(body, TileBounds(c[1], c[2])).body, Tail(cells))
             ELSE ResolveCells(body, Tail(cells))

resolveTilemapCollision(body) ==
    LET bounds == BodyBounds(body)
        startX == LFloorDiv(bounds.x, TILE_SIZE)
        endX == LCeilDiv(LAddPx(bounds.x, bounds.width), TILE_SIZE)
        startY == LFloorDiv(bounds.y, TILE_SIZE)
        endY == LCeilDiv(LAddPx(bounds.y, bounds.height), TILE_SIZE)
    IN  ResolveCells([body EXCEPT !.grounded = FALSE],
                     CellsFrom(startX, startY, startX, endX, endY))

----------------------------------------------------------------------------
(* PhysicsSystem.resolveTilemapCollision in its two-pass form, which resolves each  *)
(* tile along its primary overlap axis: a vertical pass, the grounded-retention     *)
(* probe, then a horizontal pass.                                                   *)

\* the collidingTiles list: the solid cells around the body, rows outermost
TwoPassTiles(body) ==
    LET bounds == BodyBounds(body)
        startX == LFloorDiv(bounds.x, TILE_SIZE) - 1
        endX == LCeilDiv(LAddPx(bounds.x, bounds.width), TILE_SIZE) + 1
        startY == LFloorDiv(bounds.y, TILE_SIZE) - 1
        endY == LCeilDiv(LAddPx(bounds.y, bounds.height), TILE_SIZE) + 1
        IsSolid(c) == Solid(c[1], c[2])
    IN  SelectSeq(CellsFrom(startX, startY, startX, endX, endY), IsSolid)

\* pass 1 over the tiles left to visit; landed tells whether the landing branch ran
RECURSIVE TwoPassVertical(_, _, _, _)
TwoPassVertical(body, tiles, hasVerticalCollision, landed) ==
    IF tiles = <<>>
    THEN [body |-> body, hasVerticalCollision |-> hasVerticalCollision, landed |-> landed]
    ELSE LET tileBounds == TileBounds(Head(tiles)[1], Head(tiles)[2])
             bodyBounds == BodyBounds(body)
             overlapTop == LSub(LAddPx(bodyBounds.y, bodyBounds.height), tileBounds.y)
             overlapBottom == LSub(LAddPx(tileBounds.y, tileBounds.height), bodyBounds.y)
             overlapLeft == LSub(LAddPx(bodyBounds.x, bodyBounds.width), tileBounds.x)
             overlapRight == LSub(LAddPx(tileBounds.x, tileBounds.width), bodyBounds.x)
             minHorizontal == LMin(overlapLeft, overlapRight)
             minVertical == LMin(overlapTop, overlapBottom)
         IN  IF checkAABBCollision(bodyBounds, tileBounds) /\ LLt(minVertical, minHorizontal)
             THEN IF LLt(overlapTop, overlapBottom) /\ LLt(Px(0), overlapTop)
                  THEN TwoPassVertical(
                           [body EXCEPT !.py = LSub(body.py, LAdd(overlapTop, PHYSICS_EPSILON)),
                                        !.vy = 0, !.grounded = TRUE],
                           Tail(tiles), TRUE, TRUE)
                  ELSE IF LLt(overlapBottom, overlapTop) /\ LLt(Px(0), overlapBottom)
                  THEN TwoPassVertical(
                           [body EXCEPT !.py = LAdd(body.py, LAdd(overlapBottom, PHYSICS_EPSILON)),
                                        !.vy = IF body.vy > 0 THEN body.vy ELSE 0,
                                        !.grounded = FALSE],
                           Tail(tiles), TRUE, landed)
                  ELSE TwoPassVertical(body, Tail(tiles), TRUE, landed)
             ELSE TwoPassVertical(body, Tail(tiles), hasVerticalCollision, landed)

\* the tiles the ground check accepts: they meet the body's box made 2 px taller, and
\* their top is less than 2 px from the body's bottom
TwoPassSupports(body, tiles) ==
    LET groundCheckBounds == [BodyBounds(body) EXCEPT !.height = body.h + 2]
        bodyBottom == LAddPx(body.py, body.h \div 2)
        Holds(c) ==
            /\ checkAABBCollision(groundCheckBounds, TileBounds(c[1], c[2]))
            /\ LLt(LAbs(LSub(bodyBottom, TileBounds(c[1], c[2]).y)), Px(2))
    IN  SelectSeq(tiles, Holds)

\* the grounded-retention probe; found tells whether it kept the body grounded
TwoPassRetention(body, tiles, hasVerticalCollision, wasGrounded) ==
    LET supports == TwoPassSupports(body, tiles)
    IN  IF ~hasVerticalCollision /\ wasGrounded /\ body.vy >= -PxPerSec(1) /\ supports # <<>>
        THEN [body |-> [body EXCEPT
                           !.grounded = TRUE, !.vy = 0,
                           !.py = LAddPx(TileBounds(Head(supports)[1], Head(supports)[2]).y,
                                         -(body.h \div 2))],
              found |-> TRUE]
        ELSE [body |-> body, found |-> FALSE]

\* a horizontal pass in which hitting a wall clears grounded
RECURSIVE TwoPassHorizontalUngrounds(_, _)
TwoPassHorizontalUngrounds(body, tiles) ==
    IF tiles = <<>> THEN body
    ELSE LET r == resolveCollision(body, TileBounds(Head(tiles)[1], Head(tiles)[2]))
         IN  IF r.res.side \in {"left", "right"}
             THEN TwoPassHorizontalUngrounds([r.body EXCEPT !.grounded = FALSE], Tail(tiles))
             ELSE TwoPassHorizontalUngrounds(body, Tail(tiles))

\* pass 2 over the tiles left to visit
RECURSIVE TwoPassHorizontal(_, _)
TwoPassHorizontal(body, tiles) ==
    IF tiles = <<>> THEN body
    ELSE LET tileBounds == TileBounds(Head(tiles)[1], Head(tiles)[2])
             bodyBounds == BodyBounds(body)
             overlapLeft == LSub(LAddPx(bodyBounds.x, bodyBounds.width), tileBounds.x)
             overlapRight == LSub(LAddPx(tileBounds.x, tileBounds.width), bodyBounds.x)
             overlapTop == LSub(LAddPx(bodyBounds.y, bodyBounds.height), tileBounds.y)
             overlapBottom == LSub(LAddPx(tileBounds.y, tileBounds.height), bodyBounds.y)
             minHorizontal == LMin(overlapLeft, overlapRight)
             minVertical == LMin(overlapTop, overlapBottom)
         IN  IF checkAABBCollision(bodyBounds, tileBounds) /\ LLt(minHorizontal, minVertical)
             THEN IF LLt(overlapLeft, overlapRight) /\ LLt(Px(0), overlapLeft)
                  THEN TwoPassHorizontal(
                           [body EXCEPT !.px = LSub(body.px, LAdd(overlapLeft, PHYSICS_EPSILON)),
                                        !.vx = IF body.vx < 0 THEN body.vx ELSE 0],
                           Tail(tiles))
                  ELSE IF LLt(overlapRight, overlapLeft) /\ LLt(Px(0), overlapRight)
                  THEN TwoPassHorizontal(
                           [body EXCEPT !.px = LAdd(body.px, LAdd(overlapRight, PHYSICS_EPSILON)),
                                        !.vx = IF body.vx > 0 THEN body.vx ELSE 0],
                           Tail(tiles))
                  ELSE TwoPassHorizontal(body, Tail(tiles))
             ELSE TwoPassHorizontal(body, Tail(tiles))

\* the whole call, with what its passes did: mid is the body as the vertical pass and
\* the probe left it, out the body when the call returns
resolveTilemapCollisionTwoPass(body) ==
    LET wasGrounded == body.grounded
        b0 == IF body.vy < -PxPerSec(1) THEN [body EXCEPT !.grounded = FALSE] ELSE body
        tiles == TwoPassTiles(b0)
        v == TwoPassVertical(b0, tiles, FALSE, FALSE)
        p == TwoPassRetention(v.body, tiles, v.hasVerticalCollision, wasGrounded)
    IN  [out |-> TwoPassHorizontal(p.body, tiles), mid |-> p.body,
         landed |-> v.landed, found |-> p.found]

----------------------------------------------------------------------------
(* PhysicsSystem.resolveTilemapCollision of PhysicsSystem.new.ts, which integrates  *)
(* one frame of 1/60 s itself and tests the next position.  A velocity over 60 is   *)
(* rounded down to the velocity unit, a displacement to the length unit.            *)

\* GRAVITY * (1 / 60), as a velocity
FrameGravity == PxPerSec(GRAVITY) \div 60

\* v * (1 / 60), as a length
FrameDisp(v) ==
    LET perPx == 60 * VelUnit
        r == v % perPx
    IN  Norm(v \div perPx, (r \div 3) * 5000 + ((r % 3) * 5000) \div 3)

\* Math.floor of a length
LFloor(a) == Px(a.p)

LMax(a, b) == IF LLt(a, b) THEN b ELSE a

NewTiles(body, nextX, nextY) ==
    LET currentBounds == [BodyBounds(body) EXCEPT !.x = LFloor(@), !.y = LFloor(@)]
        nextBounds == [x |-> LFloor(LAddPx(nextX, -(body.w \div 2))),
                       y |-> LFloor(LAddPx(nextY, -(body.h \div 2)))]
        startX == LFloorDiv(LMin(currentBounds.x, nextBounds.x), TILE_SIZE) - 1
        endX == LCeilDiv(LMax(LAddPx(currentBounds.x, body.w), LAddPx(nextBounds.x, body.w)),
                         TILE_SIZE) + 1
        startY == LFloorDiv(LMin(currentBounds.y, nextBounds.y), TILE_SIZE) - 1
        endY == LCeilDiv(LMax(LAddPx(currentBounds.y, body.h), LAddPx(nextBounds.y, body.h)),
                         TILE_SIZE) + 1
        IsSolid(c) == Solid(c[1], c[2])
    IN  SelectSeq(CellsFrom(startX, startY, startX, endX, endY), IsSolid)

\* the tiles of the list that meet the given box
TilesMeeting(tiles, box) ==
    LET Meets(c) == checkAABBCollision(box, TileBounds(c[1], c[2]))
    IN  SelectSeq(tiles, Meets)

\* step 5: the vertical test at the next position, the body's grounded already cleared
NewVertical(body, tiles, currentBounds, nextY) ==
    LET verticalTestBounds ==
            [currentBounds EXCEPT !.y = LFloor(LAddPx(nextY, -(body.h \div 2)))]
        hits == TilesMeeting(tiles, verticalTestBounds)
    IN  IF hits # <<>> /\ body.vy > 0
        THEN [body |-> [body EXCEPT
                           !.py = LAddPx(TileBounds(Head(hits)[1], Head(hits)[2]).y,
                                         -(body.h \div 2)),
                           !.vy = 0, !.grounded = TRUE],
              hasVerticalCollision |-> TRUE]
        ELSE IF hits # <<>> /\ body.vy < 0
        THEN [body |-> [body EXCEPT
                           !.py = LAddPx(TileBounds(Head(hits)[1], Head(hits)[2]).y,
                                         TILE_SIZE + (body.h \div 2)),
                           !.vy = 0],
              hasVerticalCollision |-> TRUE]
        ELSE [body |-> body, hasVerticalCollision |-> FALSE]

\* step 6: the ground check, 4 px of tolerance; found tells whether it grounded the body
NewGroundCheck(body, tiles, currentBounds, hasVerticalCollision, wasGrounded) ==
    LET groundCheckBounds == [currentBounds EXCEPT !.height = @ + 4]
        bodyBottom == LAddPx(body.py, body.h \div 2)
        Near(c) == LLe(LAbs(LSub(bodyBottom, TileBounds(c[1], c[2]).y)), Px(4))
        supports == SelectSeq(TilesMeeting(tiles, groundCheckBounds), Near)
    IN  IF ~hasVerticalCollision /\ wasGrounded /\ supports # <<>>
        THEN [body |-> [body EXCEPT
                           !.py = LAddPx(TileBounds(Head(supports)[1], Head(supports)[2]).y,
                                         -(body.h \div 2)),
                           !.vy = 0, !.grounded = TRUE],
              found |-> TRUE]
        ELSE [body |-> body, found |-> FALSE]

\* step 7: the horizontal test at the next x
NewHorizontal(body, tiles, nextX) ==
    LET horizontalTestBounds == [BodyBounds(body) EXCEPT !.x = LAddPx(nextX, -(body.w \div 2))]
        hits == TilesMeeting(tiles, horizontalTestBounds)
        tileBounds == TileBounds(Head(hits)[1], Head(hits)[2])
    IN  IF hits = <<>> THEN [body EXCEPT !.px = nextX]
        ELSE IF body.vx > 0
        THEN [body EXCEPT !.px = LAddPx(tileBounds.x, -(body.w \div 2)), !.vx = 0]
        ELSE IF body.vx < 0
        THEN [body EXCEPT !.px = LAddPx(tileBounds.x, TILE_SIZE + (body.w \div 2)), !.vx = 0]
        ELSE [body EXCEPT !.vx = 0]

\* the whole call, with what its steps did
resolveTilemapCollisionNew(body) ==
    LET b1 == [body EXCEPT !.vy = body.vy + FrameGravity]
        nextX == LAdd(b1.px, FrameDisp(b1.vx))
        nextY == LAdd(b1.py, FrameDisp(b1.vy))
        currentBounds == [BodyBounds(b1) EXCEPT !.x = LFloor(@), !.y = LFloor(@)]
        tiles == NewTiles(b1, nextX, nextY)
        wasGrounded == body.grounded
        v == NewVertical([b1 EXCEPT !.grounded = FALSE], tiles, currentBounds, nextY)
        g == NewGroundCheck(v.body, tiles, currentBounds, v.hasVerticalCollision, wasGrounded)
        b2 == IF ~g.body.grounded /\ ~v.hasVerticalCollision
              THEN [g.body EXCEPT !.py = nextY] ELSE g.body
    IN  [out |-> NewHorizontal(b2, tiles, nextX),
         hasVerticalCollision |-> v.hasVerticalCollision, found |-> g.found]

----------------------------------------------------------------------------
(* PhysicsSystem.resolveTilemapCollision in the form that projects a next position  *)
(* one frame of 1/60 s ahead, tests that position and writes it back.               *)

ProjectedTiles(nextBounds) ==
    LET startX == LFloorDiv(nextBounds.x, TILE_SIZE) - 1
        endX == LCeilDiv(LAddPx(nextBounds.x, nextBounds.width), TILE_SIZE) + 1
        startY == LFloorDiv(nextBounds.y, TILE_SIZE) - 1
        endY == LCeilDiv(LAddPx(nextBounds.y, nextBounds.height), TILE_SIZE) + 1
        IsSolid(c) == Solid(c[1], c[2])
    IN  SelectSeq(CellsFrom(startX, startY, startX, endX, endY), IsSolid)

\* the vertical loop over the tiles left to visit; st holds nextPosition.y, the
\* body's velocity.y and grounded, and verticalCollision
RECURSIVE ProjectedVertical(_, _, _, _)
ProjectedVertical(st, tiles, nextBounds, h) ==
    IF tiles = <<>> THEN st
    ELSE LET tileBounds == TileBounds(Head(tiles)[1], Head(tiles)[2])
             overlapTop == LSub(LAddPx(nextBounds.y, nextBounds.height), tileBounds.y)
             overlapBottom == LSub(LAddPx(tileBounds.y, tileBounds.height), nextBounds.y)
         IN  IF ~checkAABBCollision(nextBounds, tileBounds)
             THEN ProjectedVertical(st, Tail(tiles), nextBounds, h)
             ELSE IF st.vy > 0 /\ LLt(Px(0), overlapTop) /\ LLt(overlapTop, overlapBottom)
             THEN ProjectedVertical(
                      [nextY |-> LAddPx(tileBounds.y, -(h \div 2)), vy |-> 0,
                       grounded |-> TRUE, verticalCollision |-> TRUE],
                      Tail(tiles), nextBounds, h)
             ELSE IF st.vy < 0 /\ LLt(Px(0), overlapBottom) /\ LLt(overlapBottom, overlapTop)
             THEN ProjectedVertical(
                      [st EXCEPT !.nextY = LAddPx(tileBounds.y, TILE_SIZE + (h \div 2)),
                                 !.vy = PxPerSec(50), !.verticalCollision = TRUE],
                      Tail(tiles), nextBounds, h)
             ELSE ProjectedVertical(st, Tail(tiles), nextBounds, h)

\* the ground check, 4 px of tolerance below the projected bounds
ProjectedGroundCheck(st, tiles, nextBounds, h, wasGrounded) ==
    LET groundCheckBounds == [nextBounds EXCEPT !.height = @ + 4]
        bodyBottom == LAddPx(st.nextY, h \div 2)
        Near(c) == LLe(LAbs(LSub(bodyBottom, TileBounds(c[1], c[2]).y)), Px(4))
        supports == SelectSeq(TilesMeeting(tiles, groundCheckBounds), Near)
    IN  IF ~st.verticalCollision /\ wasGrounded /\ supports # <<>>
        THEN [st EXCEPT !.nextY = LAddPx(TileBounds(Head(supports)[1], Head(supports)[2]).y,
                                         -(h \div 2)),
                        !.vy = 0, !.grounded = TRUE]
        ELSE st

\* the horizontal test at the projected x, position.y already written
ProjectedHorizontal(body, tiles, nextX) ==
    LET horizontalTestBounds == [BodyBounds(body) EXCEPT !.x = LAddPx(nextX, -(body.w \div 2))]
        hits == TilesMeeting(tiles, horizontalTestBounds)
        tileBounds == TileBounds(Head(hits)[1], Head(hits)[2])
    IN  IF hits = <<>> THEN [body EXCEPT !.px = nextX]
        ELSE IF body.vx > 0
        THEN [body EXCEPT !.px = LAddPx(tileBounds.x, -(body.w \div 2)), !.vx = 0]
        ELSE IF body.vx < 0
        THEN [body EXCEPT !.px = LAddPx(tileBounds.x, TILE_SIZE + (body.w \div 2)), !.vx = 0]
        ELSE [body EXCEPT !.px = nextX, !.vx = 0]

\* velocity.y within the rise and fall limits, as the call leaves it before projecting
ProjectedVy(body) ==
    IF body.vy > PxPerSec(MAX_FALL_SPEED) THEN PxPerSec(MAX_FALL_SPEED)
    ELSE IF body.vy < PxPerSec(MAX_JUMP_SPEED) THEN PxPerSec(MAX_JUMP_SPEED)
    ELSE body.vy

\* nextPosition and nextBounds
ProjectedNext(body) ==
    LET nextX == LAdd(body.px, FrameDisp(body.vx))
        nextY == LAdd(body.py, FrameDisp(ProjectedVy(body)))
    IN  [x |-> nextX, y |-> nextY,
         bounds |-> [x |-> LAddPx(nextX, -(body.w \div 2)),
                     y |-> LAddPx(nextY, -(body.h \div 2)),
                     width |-> body.w, height |-> body.h]]

resolveTilemapCollisionProjected(body) ==
    LET wasGrounded == body.grounded
        vy0 == ProjectedVy(body)
        next == ProjectedNext(body)
        tiles == ProjectedTiles(next.bounds)
        v == ProjectedVertical([nextY |-> next.y, vy |-> vy0, grounded |-> FALSE,
                                verticalCollision |-> FALSE], tiles, next.bounds, body.h)
        g == ProjectedGroundCheck(v, tiles, next.bounds, body.h, wasGrounded)
        b1 == [body EXCEPT !.py = g.nextY, !.vy = g.vy, !.grounded = g.grounded]
    IN  ProjectedHorizontal(b1, tiles, next.x)

----------------------------------------------------------------------------
(* math.utils *)

Abs(v) == IF v < 0 THEN -v ELSE v

Sign(v) == IF v > 0 THEN 1 ELSE IF v < 0 THEN -1 ELSE 0

\* a friction step that never snaps to 0
ApplyFrictionOvershoot(velocity, friction, d) ==
    IF velocity > 0 THEN velocity - VelInc(friction, d) ELSE velocity + VelInc(friction, d)

\* applyFriction(velocity, friction, deltaSeconds); the friction amount is
\* friction * deltaSeconds, computed here from the tick length d
applyFriction(velocity, friction, d) ==
    LET frictionAmount == VelInc(friction, d)
    IN  IF velocity = 0 THEN 0
        ELSE IF Abs(velocity) <= frictionAmount THEN 0
        ELSE IF velocity > 0 THEN velocity - frictionAmount ELSE velocity + frictionAmount

----------------------------------------------------------------------------
(* MovementComponent *)

NewMovement == [vx |-> 0, vy |-> 0, grounded |-> FALSE, coyoteTimeRemaining |-> 0]

\* a move that accelerates without the clamp to maxSpeed
MoveNoClamp(m, direction, d) ==
    IF direction # 0
    THEN [m EXCEPT !.vx = m.vx + direction * VelInc(ACCELERATION, d)]
    ELSE [m EXCEPT !.vx = applyFriction(m.vx, FRICTION, d)]

\* a move that leaves velocity.x alone when there is no input
MoveCoasts(m, direction, d) ==
    IF direction # 0
    THEN LET v == m.vx + direction * VelInc(ACCELERATION, d)
         IN  [m EXCEPT !.vx = IF Abs(v) > PxPerSec(MAX_SPEED)
                               THEN Sign(v) * PxPerSec(MAX_SPEED) ELSE v]
    ELSE m

move(m, direction, d) ==
    IF direction # 0
    THEN LET v == m.vx + direction * VelInc(ACCELERATION, d)
         IN  [m EXCEPT !.vx = IF Abs(v) > PxPerSec(MAX_SPEED)
                               THEN Sign(v) * PxPerSec(MAX_SPEED) ELSE v]
    ELSE [m EXCEPT !.vx = applyFriction(m.vx, FRICTION, d)]

jump(m, jumpVelocity) ==
    [m EXCEPT !.vy = jumpVelocity, !.grounded = FALSE, !.coyoteTimeRemaining = 0]

updateCoyoteTime(m, d) ==
    IF ~m.grounded /\ m.coyoteTimeRemaining > 0
    THEN [m EXCEPT !.coyoteTimeRemaining = m.coyoteTimeRemaining - d]
    ELSE m

setGrounded(m, grounded) ==
    [m EXCEPT !.coyoteTimeRemaining =
                  IF m.grounded /\ ~grounded THEN Ms(COYOTE_TIME_MS) ELSE m.coyoteTimeRemaining,
              !.grounded = grounded]

\* a canJump that forgets the coyote timer
CanJumpGroundedOnly(m) == m.grounded

canJump(m) == m.grounded \/ m.coyoteTimeRemaining > 0

----------------------------------------------------------------------------
(* InputManager: the jump action's InputState, and the held horizontal direction *)

NewInput == [isPressed |-> FALSE, justPressed |-> FALSE, justReleased |-> FALSE, axis |-> 0]

\* an update whose justPressed and justReleased follow the level, not the change
InputManagerUpdateLevel(i, keyDown, axis) ==
    [isPressed |-> keyDown, justPressed |-> keyDown, justReleased |-> ~keyDown, axis |-> axis]

\* update(time) for the jump action, keyDown being checkActionPressed's answer;
\* axis is getHorizontalAxis's answer for the keys held in this frame
InputManagerUpdate(i, keyDown, axis) ==
    [isPressed |-> keyDown,
     justPressed |-> ~i.isPressed /\ keyDown,
     justReleased |-> i.isPressed /\ ~keyDown,
     axis |-> axis]

----------------------------------------------------------------------------
(* Player *)

\* velocity.y *= 0.5
Half(v) == v \div 2

performJump(pl) ==
    [pl EXCEPT !.movement = jump(pl.movement, PxPerSec(JUMP_VELOCITY)),
               !.physics.vy = PxPerSec(JUMP_VELOCITY),
               !.jumped = TRUE]

\* a handleJumpInput that refills the buffer only when the jump can run at once
HandleJumpInputNoBuffer(pl, inp) ==
    LET pl1 == IF inp.justPressed /\ canJump(pl.movement)
               THEN [pl EXCEPT !.jumpBufferTime = Ms(JUMP_BUFFER_MS)] ELSE pl
        pl2 == IF pl1.jumpBufferTime > 0 /\ canJump(pl1.movement)
               THEN [performJump(pl1) EXCEPT !.jumpBufferTime = 0] ELSE pl1
    IN  IF inp.justReleased /\ pl2.physics.vy < 0 /\ ~pl2.physics.grounded
        THEN [pl2 EXCEPT !.physics.vy = Half(pl2.physics.vy),
                         !.movement.vy = Half(pl2.physics.vy),
                         !.cut = TRUE]
        ELSE pl2

\* a handleJumpInput that leaves the buffer as it is when the jump executes
HandleJumpInputKeepsBuffer(pl, inp) ==
    LET pl1 == IF inp.justPressed
               THEN [pl EXCEPT !.jumpBufferTime = Ms(JUMP_BUFFER_MS)] ELSE pl
        pl2 == IF pl1.jumpBufferTime > 0 /\ canJump(pl1.movement)
               THEN performJump(pl1) ELSE pl1
    IN  IF inp.justReleased /\ pl2.physics.vy < 0 /\ ~pl2.physics.grounded
        THEN [pl2 EXCEPT !.physics.vy = Half(pl2.physics.vy),
                         !.movement.vy = Half(pl2.physics.vy),
                         !.cut = TRUE]
        ELSE pl2

\* pl holds the Player's fields (physics, movement, jumpBufferTime) and two flags
\* recording what the call did: jumped (performJump ran), cut (the velocity was halved)
handleJumpInput(pl, inp) ==
    LET pl1 == IF inp.justPressed
               THEN [pl EXCEPT !.jumpBufferTime = Ms(JUMP_BUFFER_MS)] ELSE pl
        pl2 == IF pl1.jumpBufferTime > 0 /\ canJump(pl1.movement)
               THEN [performJump(pl1) EXCEPT !.jumpBufferTime = 0] ELSE pl1
    IN  IF inp.justReleased /\ pl2.physics.vy < 0 /\ ~pl2.physics.grounded
        THEN [pl2 EXCEPT !.physics.vy = Half(pl2.physics.vy),
                         !.movement.vy = Half(pl2.physics.vy),
                         !.cut = TRUE]
        ELSE pl2

handleMovementInput(pl, inp, d) == [pl EXCEPT !.movement = move(pl.movement, inp.axis, d)]

\* a jump buffer that is never run down
UpdateJumpBufferNever(pl, d) == pl

\* the end of Player.update: "Update jump buffer"
updateJumpBuffer(pl, d) ==
    IF pl.jumpBufferTime > 0
    THEN [pl EXCEPT !.jumpBufferTime = pl.jumpBufferTime - d] ELSE pl

\* Player.update(time, delta) after inputManager.update: inp is the refreshed input
PlayerUpdate(pl0, inp, d) ==
    LET pl1 == handleMovementInput(pl0, inp, d)
        pl2 == handleJumpInput(pl1, inp)
        pl3 == [pl2 EXCEPT !.movement = updateCoyoteTime(pl2.movement, d)]
        pl4 == [pl3 EXCEPT !.physics = applyGravity(pl3.physics, d)]
        pl5 == [pl4 EXCEPT !.physics.vx = pl4.movement.vx, !.physics.vy = pl4.movement.vy]
        pl6 == [pl5 EXCEPT !.physics = updatePosition(pl5.physics, d)]
        pl7 == [pl6 EXCEPT !.movement = setGrounded(pl6.movement, pl6.physics.grounded)]
    IN  updateJumpBuffer(pl7, d)

\* an onLand that does not tell the controller
OnLandBodyOnly(pl) ==
    [pl EXCEPT !.physics.grounded = TRUE, !.landed = TRUE]

onLand(pl) ==
    [pl EXCEPT !.physics.grounded = TRUE, !.movement = setGrounded(pl.movement, TRUE),
               !.landed = TRUE]

\* a handleCollisions that never calls onLand
HandleCollisionsSilent(pl) ==
    [pl EXCEPT !.physics = resolveTilemapCollision(pl.physics)]

\* GameScene.handleCollisions
handleCollisions(pl) ==
    LET wasGrounded == pl.physics.grounded
        pl1 == [pl EXCEPT !.physics = resolveTilemapCollision(pl.physics)]
    IN  IF ~wasGrounded /\ pl1.physics.grounded THEN onLand(pl1) ELSE pl1

----------------------------------------------------------------------------
(* Player, later variant: the velocity copy comes before gravity, gravity is        *)
(* applied by the PhysicsComponent with rise and fall limits, and a press fills     *)
(* the buffer only when the jump can run.                                           *)

handleJumpInputLater(pl, inp) ==
    LET pl1 == IF inp.justPressed /\ canJump(pl.movement)
               THEN [pl EXCEPT !.jumpBufferTime = Ms(JUMP_BUFFER_MS)] ELSE pl
        pl2 == IF pl1.jumpBufferTime > 0 /\ canJump(pl1.movement)
               THEN [performJump(pl1) EXCEPT !.jumpBufferTime = 0,
                                             !.physics.grounded = FALSE,
                                             !.movement.grounded = FALSE]
               ELSE pl1
    IN  IF inp.justReleased /\ pl2.physics.vy > 0 /\ ~pl2.physics.grounded
        THEN [pl2 EXCEPT !.physics.vy = Half(pl2.physics.vy),
                         !.movement.vy = Half(pl2.physics.vy),
                         !.cut = TRUE]
        ELSE pl2

PlayerUpdateLater(pl0, inp, d) ==
    LET pl1 == handleMovementInput(pl0, inp, d)
        pl2 == handleJumpInputLater(pl1, inp)
        pl3 == [pl2 EXCEPT !.movement = updateCoyoteTime(pl2.movement, d)]
        pl4 == [pl3 EXCEPT !.physics.vx = pl3.movement.vx, !.physics.vy = pl3.movement.vy]
        pl5 == IF ~pl4.physics.grounded
               THEN [pl4 EXCEPT !.physics = applyGravityLimited(pl4.physics, GRAVITY, d)]
               ELSE pl4
        pl6 == [pl5 EXCEPT !.physics = updatePosition(pl5.physics, d)]
        pl7 == [pl6 EXCEPT !.movement = setGrounded(pl6.movement, pl6.physics.grounded)]
    IN  updateJumpBuffer(pl7, d)

----------------------------------------------------------------------------
(* The game loop: GameScene.update runs Player.update, then handleCollisions *)

MaxTicks == 9

MaxKeyEdges == 4

MaxAxisChanges == 1

\* tick lengths, one per run: 60 and 30 frames a second
Deltas == {1667, 3334}

\* the direction held: none, or right (towards the ledge)
Axes == {0, 1}

\* where a Player is constructed: on the floor (sunk 1 px into it) away from the ledge,
\* on the floor 1 px left of the ledge, in the air with nothing near, and in the air
\* left of the ledge with its feet 1.5 px below the ledge's top
SpawnPoints ==
    { <<Px(48), Px(137)>>, <<Px(111), Px(137)>>, <<Px(48), Px(60)>>,
      <<Px(111), [p |-> 105, n |-> Nano \div 2]>> }

NoRect == [x |-> Px(0), y |-> Px(0), width |-> 0, height |-> 0]

PlayerOf(ph, mv, jb) ==
    [physics |-> ph, movement |-> mv, jumpBufferTime |-> jb,
     jumped |-> FALSE, cut |-> FALSE, landed |-> FALSE]

ThePlayer == PlayerOf(physics, movement, jumpBufferTime)

\* hist records, for the properties below, what the last Player.update and the last
\* handleCollisions did and some elapsed times; the program does not read it.
\*   jumped, cut, landed   performJump ran / the velocity was halved / onLand ran
\*   pre                   the Player's fields when the last Player.update began
\*   preLanded             onLand ran in the terrain pass just before the last update
\*   airT                  tick time accumulated since the terrain pass turned grounded
\*                         from true to false in a tick without a jump, the body airborne
\*                         and no jump executed since; -1 otherwise
\*   pressAge              tick time accumulated since the update in which a press was
\*                         observed with the body airborne and no jump executed, no jump
\*                         executed and no new press since; -1 otherwise
\*   beginAirT, beginPressAge   airT, pressAge when the last Player.update began
\*   inJump                a jump has executed and no terrain pass has grounded the body since
\*   preInJump             inJump when the last Player.update began
\*   cuts                  halvings since the last executed jump
NewHist ==
    [jumped |-> FALSE, cut |-> FALSE, landed |-> FALSE, keyEdges |-> 0, axisChanges |-> 0,
     pre |-> PlayerOf(NewPhysics(Px(0), Px(0), PLAYER_WIDTH, PLAYER_HEIGHT), NewMovement, 0),
     airT |-> -1, beginAirT |-> -1, preLanded |-> FALSE, pressAge |-> -1, beginPressAge |-> -1,
     inJump |-> FALSE, preInJump |-> FALSE, cuts |-> 0, presses |-> 0, jumps |-> 0]

Init ==
    /\ \E s \in SpawnPoints :
          physics = NewPhysics(s[1], s[2], PLAYER_WIDTH, PLAYER_HEIGHT)
    /\ movement = NewMovement
    /\ jumpBufferTime = 0
    /\ input = NewInput
    /\ rect = NoRect
    /\ delta \in Deltas
    /\ pc = "update"
    /\ ticks = 0
    /\ hist = NewHist

\* the changes of the held keys are counted, to bound them; the direction held in the
\* first tick is free
KeyEdge(keyDown) == IF keyDown # input.isPressed THEN 1 ELSE 0

AxisChange(axis) == IF ticks > 0 /\ axis # input.axis THEN 1 ELSE 0

\* one Player.update, the keys read by InputManager.update being keyDown and axis
Update(keyDown, axis) ==
    /\ pc = "update"
    /\ ticks < MaxTicks
    /\ hist.keyEdges + KeyEdge(keyDown) <= MaxKeyEdges
    /\ hist.axisChanges + AxisChange(axis) <= MaxAxisChanges
    \* a halving stays an exact number of velocity units
    /\ (input.isPressed /\ ~keyDown) => physics.vy % 2 = 0
    /\ LET inp == InputManagerUpdate(input, keyDown, axis)
           pl == PlayerUpdate(ThePlayer, inp, delta)
       IN  /\ input' = inp
           /\ physics' = pl.physics
           /\ movement' = pl.movement
           /\ jumpBufferTime' = pl.jumpBufferTime
           /\ hist' = [hist EXCEPT
                  !.jumped = pl.jumped, !.cut = pl.cut, !.landed = FALSE,
                  !.keyEdges = @ + KeyEdge(keyDown),
                  !.axisChanges = @ + AxisChange(axis),
                  !.pre = ThePlayer,
                  !.beginAirT = hist.airT,
                  !.airT = IF pl.jumped \/ hist.airT < 0 THEN -1 ELSE hist.airT + delta,
                  !.preLanded = hist.landed,
                  !.beginPressAge = hist.pressAge,
                  !.pressAge = IF pl.jumped THEN -1
                               ELSE IF inp.justPressed
                               THEN (IF physics.grounded THEN -1 ELSE delta)
                               ELSE IF hist.pressAge < 0 THEN -1
                               ELSE hist.pressAge + delta,
                  !.preInJump = hist.inJump,
                  !.inJump = hist.inJump \/ pl.jumped,
                  !.cuts = (IF pl.jumped THEN 0 ELSE hist.cuts) + (IF pl.cut THEN 1 ELSE 0),
                  !.presses = @ + (IF inp.justPressed THEN 1 ELSE 0),
                  !.jumps = @ + (IF pl.jumped THEN 1 ELSE 0)]
    /\ pc' = "collide"
    /\ UNCHANGED <<rect, delta, ticks>>

\* GameScene.handleCollisions, which ends the tick
Collide ==
    /\ pc = "collide"
    /\ LET pl == handleCollisions(ThePlayer)
       IN  /\ physics' = pl.physics
           /\ movement' = pl.movement
           /\ jumpBufferTime' = pl.jumpBufferTime
           /\ hist' = [hist EXCEPT
                  !.landed = pl.landed,
                  !.airT = IF pl.physics.grounded THEN -1
                           ELSE IF physics.grounded /\ ~hist.jumped THEN 0
                           ELSE hist.airT,
                  !.inJump = hist.inJump /\ ~pl.physics.grounded]
    /\ pc' = "update"
    /\ ticks' = ticks + 1
    /\ UNCHANGED <<input, rect, delta>>

Next ==
    \/ \E keyDown \in BOOLEAN, axis \in Axes : Update(keyDown, axis)
    \/ Collide

Spec == Init /\ [][Next]_vars

----------------------------------------------------------------------------
(* The landing loop of tests/unit/PhysicsSystem.test.ts: a body released above a   *)
(* platform is stepped with applyGravity, updatePosition and resolveCollision      *)
(* until it is grounded.                                                           *)

MaxDropTicks == 40

\* the tick of the loop, 16.67 ms
DropDelta == 1667

\* the platform of the test, (150, 300, 128, 32), and the one of the documented landing
\* scenario, (80, 180, 64, 32)
Platforms ==
    { [x |-> Px(150), y |-> Px(300), width |-> 128, height |-> 32],
      [x |-> Px(80), y |-> Px(180), width |-> 64, height |-> 32] }

\* where the body is released: its centre this far right of the platform's left edge
\* and this far above the platform's top, with this downward velocity in px/s.  The
\* test's body (200, 100) is 50 right and 200 above; the documented one, (100, 100), 20
\* right and 80 above; both are released at 200 px/s.
DropXs == {16, 20, 50}

DropHeights == {26, 80, 200}

DropVelocities == {50, 200, 800}

InitDrop ==
    /\ rect \in Platforms
    /\ \E dx \in DropXs, h \in DropHeights, v \in DropVelocities :
          physics = [NewPhysics(LAddPx(rect.x, dx), LAddPx(rect.y, -h),
                                PLAYER_WIDTH, PLAYER_HEIGHT) EXCEPT !.vy = PxPerSec(v)]
    /\ movement = NewMovement
    /\ jumpBufferTime = 0
    /\ input = NewInput
    /\ delta = DropDelta
    /\ pc = "drop"
    /\ ticks = 0
    /\ hist = [NewHist EXCEPT !.pre.physics = physics]

\* one turn of the loop; the loop is left when the body is grounded
DropStep ==
    /\ pc = "drop"
    /\ ticks < MaxDropTicks
    /\ LET b1 == applyGravity(physics, delta)
           b2 == updatePosition(b1, delta)
           b3 == resolveCollision(b2, rect).body
       IN  /\ physics' = b3
           /\ pc' = IF b3.grounded THEN "landed" ELSE "drop"
    /\ ticks' = ticks + 1
    /\ UNCHANGED <<movement, jumpBufferTime, input, rect, delta, hist>>

NextDrop == DropStep

SpecDrop == InitDrop /\ [][NextDrop]_vars

----------------------------------------------------------------------------
(* One call of PhysicsSystem.resolveCollision, as the tests in                     *)
(* tests/unit/PhysicsSystem.test.ts make it: a 32x48 body is placed, given a        *)
(* velocity, and resolved against one rectangle.  Here hist holds the body before   *)
(* the call (pre), the CollisionResult returned (res), the body as the first call   *)
(* left it (first) and the CollisionResult of a repeated call (again).             *)

\* the rectangles of the tests: the platform, the wall and the ceiling
ResolveRects ==
    { [x |-> Px(80), y |-> Px(180), width |-> 64, height |-> 32],
      [x |-> Px(116), y |-> Px(76), width |-> 32, height |-> 64],
      [x |-> Px(80), y |-> Px(40), width |-> 64, height |-> 32] }

\* body centres: the tests' (100, 100) and (100, 200), and others that put the body a
\* few pixels into a rectangle from above, from below and from either side
ResolveXs == {100, 104, 110, 160}

ResolveYs == {55, 60, 92, 100, 160, 200}

\* velocities in px/s: the tests' 50, 100 and -100, their opposites and rest
ResolveVxs == {-50, 0, 50}

ResolveVys == {-100, 0, 100}

InitResolve ==
    /\ rect \in ResolveRects
    /\ \E x \in ResolveXs, y \in ResolveYs, vx \in ResolveVxs, vy \in ResolveVys,
          g \in BOOLEAN :
          physics = [NewPhysics(Px(x), Px(y), PLAYER_WIDTH, PLAYER_HEIGHT)
                        EXCEPT !.vx = PxPerSec(vx), !.vy = PxPerSec(vy), !.grounded = g]
    /\ movement = NewMovement
    /\ jumpBufferTime = 0
    /\ input = NewInput
    /\ delta = DropDelta
    /\ pc = "call"
    /\ ticks = 0
    /\ hist = [pre |-> physics, res |-> NoCollision, first |-> physics, again |-> NoCollision]

ResolveCall ==
    /\ pc = "call"
    /\ LET r == resolveCollision(physics, rect)
       IN  /\ physics' = r.body
           /\ hist' = [hist EXCEPT !.res = r.res, !.first = r.body]
    /\ pc' = "return"
    /\ UNCHANGED <<movement, jumpBufferTime, input, rect, delta, ticks>>

\* the same call made again at once, on the body as the first call left it
ResolveAgain ==
    /\ pc = "return"
    /\ LET r == resolveCollision(physics, rect)
       IN  /\ physics' = r.body
           /\ hist' = [hist EXCEPT !.again = r.res]
    /\ pc' = "again"
    /\ UNCHANGED <<movement, jumpBufferTime, input, rect, delta, ticks>>

NextResolve == ResolveCall \/ ResolveAgain

SpecResolve == InitResolve /\ [][NextResolve]_vars

----------------------------------------------------------------------------
(* One comparison of two rectangles with PhysicsSystem.checkAABBCollision, in both  *)
(* orders.  Here rect is a, and hist holds b and the two answers.                   *)

\* edge coordinates: those of the tests (0, 16, 64), one that makes edges meet (32),
\* and one PHYSICS_EPSILON short of meeting
AABBCoords == {Px(0), Px(16), LSub(Px(32), PHYSICS_EPSILON), Px(32), Px(64)}

\* the tests' size, 32, and the body's height
AABBSizes == {32, 48}

AABBRects ==
    [x : AABBCoords, y : AABBCoords, width : AABBSizes, height : AABBSizes]

InitAABB ==
    /\ rect \in AABBRects
    /\ \E b \in AABBRects : hist = [b |-> b, ab |-> FALSE, ba |-> FALSE]
    /\ physics = NewPhysics(Px(0), Px(0), PLAYER_WIDTH, PLAYER_HEIGHT)
    /\ movement = NewMovement
    /\ jumpBufferTime = 0
    /\ input = NewInput
    /\ delta = DropDelta
    /\ pc = "call"
    /\ ticks = 0

AABBCall ==
    /\ pc = "call"
    /\ hist' = [hist EXCEPT !.ab = checkAABBCollision(rect, hist.b),
                            !.ba = checkAABBCollision(hist.b, rect)]
    /\ pc' = "return"
    /\ UNCHANGED <<physics, movement, jumpBufferTime, input, rect, delta, ticks>>

NextAABB == AABBCall

SpecAABB == InitAABB /\ [][NextAABB]_vars

----------------------------------------------------------------------------
(* The harness of tests/integration/PlayerJump.test.ts: a Player is created at      *)
(* (100, 100) with a mocked InputManager; between updates the test writes the       *)
(* body's grounded flag and chooses what the mock's justPressed and justReleased    *)
(* answer; every update gets 16.67 ms.  Here hist holds the Player's fields when    *)
(* the last update began (pre), whether that update ran performJump or the cut,     *)
(* and whether the last step was an update.                                         *)

MaxTestUpdates == 4

InitTest ==
    /\ physics = NewPhysics(Px(100), Px(100), PLAYER_WIDTH, PLAYER_HEIGHT)
    /\ movement = NewMovement
    /\ jumpBufferTime = 0
    /\ input = NewInput
    /\ rect = NoRect
    /\ delta = DropDelta
    /\ pc = "test"
    /\ ticks = 0
    /\ hist = [pre |-> ThePlayer, jumped |-> FALSE, cut |-> FALSE, updated |-> FALSE]

\* physicsBody.grounded = g
TestSetGrounded(g) ==
    /\ pc = "test"
    /\ ticks < MaxTestUpdates
    /\ g # physics.grounded
    /\ physics' = [physics EXCEPT !.grounded = g]
    /\ hist' = [hist EXCEPT !.updated = FALSE]
    /\ UNCHANGED <<movement, jumpBufferTime, input, rect, delta, pc, ticks>>

\* player.update(time, 16.67); the mock's update() does nothing, its getHorizontalAxis
\* and isPressed answer 0 and false
TestUpdate(pressed, released) ==
    /\ pc = "test"
    /\ ticks < MaxTestUpdates
    /\ LET inp == [isPressed |-> FALSE, justPressed |-> pressed,
                   justReleased |-> released, axis |-> 0]
           pl == PlayerUpdate(ThePlayer, inp, delta)
       IN  /\ input' = inp
           /\ physics' = pl.physics
           /\ movement' = pl.movement
           /\ jumpBufferTime' = pl.jumpBufferTime
           /\ hist' = [pre |-> ThePlayer, jumped |-> pl.jumped, cut |-> pl.cut,
                       updated |-> TRUE]
    /\ ticks' = ticks + 1
    /\ UNCHANGED <<rect, delta, pc>>

NextTest ==
    \/ \E g \in BOOLEAN : TestSetGrounded(g)
    \/ \E pressed \in BOOLEAN, released \in BOOLEAN : TestUpdate(pressed, released)

SpecTest == InitTest /\ [][NextTest]_vars

----------------------------------------------------------------------------
(* A MovementComponent driven by any sequence of its methods.  Here hist holds the  *)
(* last call (its name, direction and delta) and the component before it (pre).     *)

MaxCalls == 5

\* deltas in hundredths of a millisecond: none, a 60 Hz frame, a 30 Hz frame, and a
\* frame of a quarter of a second
CallDeltas == {0, 1667, 3334, 25000}

\* getHorizontalAxis's answers for the keys
CallDirections == {-1, 0, 1}

\* horizontal velocities to start from, in px/s, none above MAX_SPEED
StartSpeeds == {-250, -100, 0, 100, 250}

InitMovement ==
    /\ \E v \in StartSpeeds : movement = [NewMovement EXCEPT !.vx = PxPerSec(v)]
    /\ physics = NewPhysics(Px(0), Px(0), PLAYER_WIDTH, PLAYER_HEIGHT)
    /\ jumpBufferTime = 0
    /\ input = NewInput
    /\ rect = NoRect
    /\ delta = DropDelta
    /\ pc = "calls"
    /\ ticks = 0
    /\ hist = [last |-> "new", dir |-> 0, d |-> 0, pre |-> movement]

CallSetGrounded(g) ==
    /\ pc = "calls"
    /\ ticks < MaxCalls
    /\ movement' = setGrounded(movement, g)
    /\ hist' = [last |-> "setGrounded", dir |-> 0, d |-> 0, pre |-> movement]
    /\ ticks' = ticks + 1
    /\ UNCHANGED <<physics, jumpBufferTime, input, rect, delta, pc>>

CallUpdateCoyoteTime(d) ==
    /\ pc = "calls"
    /\ ticks < MaxCalls
    /\ movement' = updateCoyoteTime(movement, d)
    /\ hist' = [last |-> "updateCoyoteTime", dir |-> 0, d |-> d, pre |-> movement]
    /\ ticks' = ticks + 1
    /\ UNCHANGED <<physics, jumpBufferTime, input, rect, delta, pc>>

CallJump ==
    /\ pc = "calls"
    /\ ticks < MaxCalls
    /\ movement' = jump(movement, PxPerSec(JUMP_VELOCITY))
    /\ hist' = [last |-> "jump", dir |-> 0, d |-> 0, pre |-> movement]
    /\ ticks' = ticks + 1
    /\ UNCHANGED <<physics, jumpBufferTime, input, rect, delta, pc>>

CallMove(dir, d) ==
    /\ pc = "calls"
    /\ ticks < MaxCalls
    /\ movement' = move(movement, dir, d)
    /\ hist' = [last |-> "move", dir |-> dir, d |-> d, pre |-> movement]
    /\ ticks' = ticks + 1
    /\ UNCHANGED <<physics, jumpBufferTime, input, rect, delta, pc>>

NextMovement ==
    \/ \E g \in BOOLEAN : CallSetGrounded(g)
    \/ \E d \in CallDeltas : CallUpdateCoyoteTime(d)
    \/ CallJump
    \/ \E dir \in CallDirections, d \in CallDeltas : CallMove(dir, d)

SpecMovement == InitMovement /\ [][NextMovement]_vars

----------------------------------------------------------------------------
(* Properties of the game loop.  A state with pc = "collide" is the state in     *)
(* which a Player.update has just returned; one with pc = "update" and ticks > 0 *)
(* is the state after a whole tick.                                              *)

JumpVel == PxPerSec(JUMP_VELOCITY)

\* C1: coyote time, grace side.  When the terrain pass has turned grounded from true
\* to false in a tick without a jump and the body has stayed airborne without jumping,
\* a jump press observed in a Player.update that begins less than COYOTE_TIME_MS of
\* accumulated tick time after that pass executes a jump: the update returns with
\* velocity.y = JUMP_VELOCITY.
C1_CoyoteGrace ==
    (/\ pc = "collide"
     /\ hist.beginAirT >= 0
     /\ hist.beginAirT < Ms(COYOTE_TIME_MS)
     /\ input.justPressed)
    => (hist.jumped /\ physics.vy = JumpVel /\ movement.vy = JumpVel)

\* a press in the window after the first update since the body left the ground, answered
\* by a jump that only the coyote timer allows (the controller's grounded flag is false)
C1_Witness ==
    /\ pc = "collide"
    /\ hist.beginAirT > 0
    /\ hist.beginAirT < Ms(COYOTE_TIME_MS)
    /\ input.justPressed
    /\ ~hist.pre.movement.grounded
    /\ hist.pre.movement.coyoteTimeRemaining > 0
    /\ hist.jumped
    /\ physics.vy = JumpVel

\* C2: coyote time, expiry side.  After the terrain pass has turned grounded from true
\* to false in a tick without a jump and the body has stayed airborne without jumping,
\* a jump press observed in a Player.update that begins strictly more than
\* COYOTE_TIME_MS of accumulated tick time after that pass executes no jump.
C2_CoyoteExpiry ==
    (/\ pc = "collide"
     /\ hist.beginAirT > Ms(COYOTE_TIME_MS)
     /\ input.justPressed)
    => ~hist.jumped

C4_BufferExpires ==
    (/\ pc = "collide"
     /\ hist.beginPressAge > Ms(JUMP_BUFFER_MS)
     /\ ~input.justPressed)
    => ~hist.jumped

\* the landing tick of a body that landed after the buffer ran out: no jump
C4_Witness ==
    /\ pc = "collide"
    /\ hist.preLanded
    /\ hist.pre.physics.grounded
    /\ hist.beginPressAge > Ms(JUMP_BUFFER_MS)
    /\ ~input.justPressed
    /\ ~hist.jumped

\* C5: a jump consumes the grace window.  After a jump has executed, no second jump
\* executes until a terrain pass has grounded the body again.
C5_JumpConsumesGrace ==
    (pc = "collide" /\ hist.jumped) => ~hist.preInJump

\* the jump buffer as handleJumpInput sees it in the last update (a press refills it),
\* and canJump() then
BufferAtJumpInput ==
    IF input.justPressed THEN Ms(JUMP_BUFFER_MS) ELSE hist.pre.jumpBufferTime

CanJumpAtJumpInput ==
    hist.pre.movement.grounded \/ hist.pre.movement.coyoteTimeRemaining > 0

\* C6: jump execution rule.  handleJumpInput performs a jump in an update if and only
\* if, at that moment, the jump buffer is greater than 0 and canJump() holds; on
\* execution the buffer is 0 and velocity.y is JUMP_VELOCITY; and when the body is
\* airborne (its grounded flag is false) with no coyote time left, an update that
\* observes a press executes no jump.  The last part is stated for a body that is not
\* in the window after walking off the ground, where C1 asks for the jump.
C6_JumpRule ==
    pc = "collide" =>
        /\ hist.jumped <=> (BufferAtJumpInput > 0 /\ CanJumpAtJumpInput)
        /\ hist.jumped => (jumpBufferTime = 0 /\ physics.vy = JumpVel)
        /\ (/\ input.justPressed
            /\ ~hist.pre.physics.grounded
            /\ hist.pre.movement.coyoteTimeRemaining <= 0
            /\ hist.beginAirT < 0) => ~hist.jumped

\* C7: variable jump height.  The upward velocity is halved at most once per jump: a
\* second release edge in the same ascent leaves velocity.y unchanged.
C7_SingleCut == hist.cuts <= 1

\* the body is grounded with its bottom edge within PHYSICS_EPSILON above the top of a
\* solid tile that lies under it and has no solid tile on top: the floor or the ledge
StandsOn(b, x, y) ==
    LET bb == BodyBounds(b)
        bottom == LAddPx(bb.y, bb.height)
        tile == TileBounds(x, y)
    IN  /\ Solid(x, y) /\ ~Solid(x, y - 1)
        /\ LLt(bb.x, LAddPx(tile.x, tile.width))
        /\ LLt(tile.x, LAddPx(bb.x, bb.width))
        /\ LLe(bottom, tile.y)
        /\ LLe(LSub(tile.y, bottom), PHYSICS_EPSILON)

OnFlatGround(b) == b.grounded /\ \E x \in 0..7, y \in 4..5 : StandsOn(b, x, y)

\* no jump is requested in the last update: no press is observed and none is buffered
NoJumpRequested ==
    ~input.justPressed /\ hist.pre.jumpBufferTime <= 0 /\ ~hist.jumped

\* C8: stable grounded state.  When a tick begins with the body grounded on flat ground
\* (a terrain pass has landed it) and no jump is requested in the tick, the body's
\* grounded flag is true after the tick.
C8_StableGrounded ==
    (/\ pc = "update" /\ ticks > 0
     /\ OnFlatGround(hist.pre.physics)
     /\ NoJumpRequested)
    => physics.grounded

\* C9: repeated landing idempotence.  When a tick begins with the body grounded on flat
\* ground, and runs with zero horizontal input and no jump input (the jump key up, no
\* press buffered), position.y after the tick is within PHYSICS_EPSILON of its value
\* before it and velocity.y is the same; so for every number of such ticks.
C9_LandingIdempotent ==
    (/\ pc = "update" /\ ticks > 0
     /\ OnFlatGround(hist.pre.physics)
     /\ input.axis = 0
     /\ ~input.isPressed /\ ~input.justReleased
     /\ NoJumpRequested)
    => /\ LLe(LAbs(LSub(physics.py, hist.pre.physics.py)), PHYSICS_EPSILON)
       /\ physics.vy = hist.pre.physics.vy

C11_JumpArc ==
    (/\ pc = "collide"
     /\ hist.preInJump /\ ~hist.jumped
     /\ ~input.justPressed /\ ~input.justReleased /\ input.axis = 0
     /\ ~hist.pre.physics.grounded)
    => physics.vy > hist.pre.physics.vy

----------------------------------------------------------------------------
(* Properties of one resolveCollision call (SpecResolve) *)

\* the body's bounds before the call overlap the rectangle
OverlapsBefore == checkAABBCollision(BodyBounds(hist.pre), rect)

\* the body the tests build before each case: (100, 100), at rest, not grounded
TestBodyAt(x, y, vx, vy) ==
    hist.pre = [NewPhysics(Px(x), Px(y), PLAYER_WIDTH, PLAYER_HEIGHT)
                   EXCEPT !.vx = PxPerSec(vx), !.vy = PxPerSec(vy)]

\* the body's horizontal extent is within the rectangle's
WithinSpanX ==
    LET bb == BodyBounds(hist.pre)
    IN  LLe(rect.x, bb.x) /\ LLe(LAddPx(bb.x, bb.width), LAddPx(rect.x, rect.width))

\* the rectangle lies below the body: its top edge is not above the body's centre
RectBelow == WithinSpanX /\ LLe(hist.pre.py, rect.y)

\* the test case of the landing: body at (100, 200) falling at 100 px/s onto the
\* platform (80, 180, 64, 32)
C12_TestCase ==
    /\ TestBodyAt(100, 200, 0, 100)
    /\ rect = [x |-> Px(80), y |-> Px(180), width |-> 64, height |-> 32]

\* C12: landing.  For a body moving downward whose bounds overlap a rectangle lying
\* below it, and for the test case, resolveCollision returns collided = true and
\* side = 'bottom', sets grounded and leaves velocity.y <= 0.
C12_LandOnTop ==
    (/\ pc = "return"
     /\ hist.pre.vy > 0
     /\ OverlapsBefore
     /\ (RectBelow \/ C12_TestCase))
    => /\ hist.res.collided
       /\ hist.res.side = "bottom"
       /\ physics.grounded
       /\ physics.vy <= 0

\* the rectangle is beside the body: its vertical extent contains the height of the
\* body's centre, and it lies wholly to the right or wholly to the left of the centre
RectOnRight ==
    /\ LLt(rect.y, hist.pre.py) /\ LLt(hist.pre.py, LAddPx(rect.y, rect.height))
    /\ LLe(hist.pre.px, rect.x)

RectOnLeft ==
    /\ LLt(rect.y, hist.pre.py) /\ LLt(hist.pre.py, LAddPx(rect.y, rect.height))
    /\ LLe(LAddPx(rect.x, rect.width), hist.pre.px)

\* C13: side collisions.  For a body moving horizontally whose bounds overlap a
\* rectangle beside it, resolveCollision leaves grounded as it was and leaves no
\* horizontal velocity directed into the rectangle.
C13_SideCollision ==
    (/\ pc = "return"
     /\ hist.pre.vx # 0
     /\ OverlapsBefore
     /\ (RectOnRight \/ RectOnLeft))
    => /\ physics.grounded = hist.pre.grounded
       /\ RectOnRight => physics.vx <= 0
       /\ RectOnLeft => physics.vx >= 0

\* a grounded body moving right into the wall: stopped, and still grounded
C13_Witness ==
    /\ pc = "return"
    /\ hist.pre.vx > 0
    /\ OverlapsBefore
    /\ RectOnRight
    /\ hist.pre.grounded
    /\ physics.grounded
    /\ physics.vx = 0
    /\ hist.res.collided

\* the rectangle lies above the body: its bottom edge is not below the body's centre
RectAbove == WithinSpanX /\ LLe(LAddPx(rect.y, rect.height), hist.pre.py)

\* the test case of the head bonk: body at (100, 100) rising at 100 px/s, ceiling
\* (80, 40, 64, 32)
C14_TestCase ==
    /\ TestBodyAt(100, 100, 0, -100)
    /\ rect = [x |-> Px(80), y |-> Px(40), width |-> 64, height |-> 32]

\* C14: head bonk.  For a body moving upward whose bounds overlap a rectangle lying
\* above it, and for the test case, resolveCollision returns collided = true and
\* side = 'top', and afterwards grounded is false and velocity.y >= 0.
C14_HeadBonk ==
    (/\ pc = "return"
     /\ hist.pre.vy < 0
     /\ (OverlapsBefore /\ RectAbove) \/ C14_TestCase)
    => /\ hist.res.collided
       /\ hist.res.side = "top"
       /\ ~physics.grounded
       /\ physics.vy >= 0

\* the test case of the wall: body at (100, 100) moving right at 50 px/s, wall
\* (116, 76, 32, 64)
C18_TestCase ==
    /\ TestBodyAt(100, 100, 50, 0)
    /\ rect = [x |-> Px(116), y |-> Px(76), width |-> 32, height |-> 64]

\* C18: a wall on the right.  For a body that is not grounded, moves right and overlaps
\* a rectangle beside it on its right, and for the test case, resolveCollision returns
\* collided = true and side = 'left', leaves grounded false and velocity.x <= 0.
C18_WallOnRight ==
    (/\ pc = "return"
     /\ hist.pre.vx > 0
     /\ ~hist.pre.grounded
     /\ (OverlapsBefore /\ RectOnRight) \/ C18_TestCase)
    => /\ hist.res.collided
       /\ hist.res.side = "left"
       /\ ~physics.grounded
       /\ physics.vx <= 0

----------------------------------------------------------------------------
(* Properties of checkAABBCollision (SpecAABB) *)

\* C15: checkAABBCollision is symmetric: the answer for (a, b) is the answer for (b, a).
C15_Symmetric ==
    pc = "return" => (hist.ab = hist.ba)

\* two different rectangles that overlap, whichever is asked first
C15_Witness ==
    /\ pc = "return"
    /\ rect # hist.b
    /\ rect.x # hist.b.x
    /\ hist.ab /\ hist.ba

\* the intervals [lo1, lo1 + len1] and [lo2, lo2 + len2] share more than a point
SpansOverlap(lo1, len1, lo2, len2) ==
    LET lo == IF LLt(lo1, lo2) THEN lo2 ELSE lo1
        hi == LMin(LAddPx(lo1, len1), LAddPx(lo2, len2))
    IN  LLt(lo, hi)

InteriorsOverlap(a, b) ==
    /\ SpansOverlap(a.x, a.width, b.x, b.width)
    /\ SpansOverlap(a.y, a.height, b.y, b.height)

\* an edge of one rectangle is exactly on the facing edge of the other
EdgesTouch(a, b) ==
    \/ LAddPx(a.x, a.width) = b.x \/ LAddPx(b.x, b.width) = a.x
    \/ LAddPx(a.y, a.height) = b.y \/ LAddPx(b.y, b.height) = a.y

\* C16: boundary contact is no collision.  checkAABBCollision is true exactly when the
\* interiors of the two rectangles overlap on both axes, and so false whenever an edge
\* of one exactly meets the facing edge of the other.
C16_TouchingIsNoCollision ==
    pc = "return" =>
        /\ hist.ab <=> InteriorsOverlap(rect, hist.b)
        /\ EdgesTouch(rect, hist.b) => ~hist.ab

\* a's right edge exactly on b's left edge, the two side by side: no collision;
\* PHYSICS_EPSILON more and there is one
C16_Witness ==
    /\ pc = "return"
    /\ LAddPx(rect.x, rect.width) = hist.b.x
    /\ SpansOverlap(rect.y, rect.height, hist.b.y, hist.b.height)
    /\ ~hist.ab

----------------------------------------------------------------------------
(* Properties of Player.update under the test harness (SpecTest) *)

\* C17: jump from the ground.  Whenever the body's grounded flag is true when
\* Player.update begins and the jump press edge is reported in that update, the update
\* ends with the body's velocity.y equal to JUMP_VELOCITY; so too for a newly created
\* Player whose body has just been marked grounded.
C17_JumpFromGround ==
    (/\ pc = "test"
     /\ hist.updated
     /\ hist.pre.physics.grounded
     /\ input.justPressed)
    => physics.vy = JumpVel

----------------------------------------------------------------------------
(* Properties of the MovementComponent (SpecMovement) *)

\* C19: coyoteTimeRemaining is never negative, whatever sequence of setGrounded,
\* updateCoyoteTime and jump calls (and moves) the component has received.
C19_CoyoteNonNegative ==
    movement.coyoteTimeRemaining >= 0

\* C20: horizontal speed limit.  Starting from |velocity.x| <= MAX_SPEED, after any
\* sequence of calls |velocity.x| <= MAX_SPEED.
C20_SpeedLimit ==
    Abs(movement.vx) <= PxPerSec(MAX_SPEED)

\* a move to the right whose acceleration alone would have passed MAX_SPEED, clamped
\* to exactly MAX_SPEED
C20_Witness ==
    /\ hist.last = "move"
    /\ hist.dir = 1
    /\ hist.pre.vx + VelInc(ACCELERATION, hist.d) > PxPerSec(MAX_SPEED)
    /\ hist.pre.vx < PxPerSec(MAX_SPEED)
    /\ movement.vx = PxPerSec(MAX_SPEED)


-----------------------------------------------------------------------------
(* One call of applyFriction (math.utils).  Here hist holds the arguments and the   *)
(* returned value.                                                                  *)

\* velocities in px/s: those of the tests (100, 10, -100), 0, the speed limit, and
\* one unit from 0 either way
FrictionVelocities ==
    {PxPerSec(-250), PxPerSec(-100), PxPerSec(-10), -1, 0, 1,
     PxPerSec(10), PxPerSec(50), PxPerSec(100), PxPerSec(250)}

\* friction coefficients in px/s^2: none, the tests' (50), the player's (FRICTION)
Frictions == {-50, 0, 50, FRICTION}

\* elapsed times: a negative one, none, one and two frames, and the tests' 1 s
FrictionDeltas == {-DropDelta, 0, DropDelta, 2 * DropDelta, Ms(1000)}

InitFriction ==
    /\ \E v \in FrictionVelocities, f \in Frictions, d \in FrictionDeltas :
            hist = [velocity |-> v, friction |-> f, d |-> d, out |-> v]
    /\ physics = NewPhysics(Px(0), Px(0), PLAYER_WIDTH, PLAYER_HEIGHT)
    /\ movement = NewMovement
    /\ jumpBufferTime = 0
    /\ input = NewInput
    /\ rect = NoRect
    /\ delta = DropDelta
    /\ pc = "call"
    /\ ticks = 0

FrictionCall ==
    /\ pc = "call"
    /\ hist' = [hist EXCEPT !.out = applyFriction(hist.velocity, hist.friction, hist.d)]
    /\ pc' = "return"
    /\ UNCHANGED <<physics, movement, jumpBufferTime, input, rect, delta, ticks>>

NextFriction == FrictionCall

SpecFriction == InitFriction /\ [][NextFriction]_vars

-----------------------------------------------------------------------------
(* Properties of applyFriction (SpecFriction) *)

\* C21: with friction >= 0 and delta >= 0, applyFriction returns 0 when
\* |v| <= friction * delta, and otherwise v moved toward zero by exactly
\* friction * delta; the result never has the opposite sign of v and never a larger
\* magnitude than v.
C21_Friction ==
    (pc = "return" /\ hist.friction >= 0 /\ hist.d >= 0) =>
        LET amount == VelInc(hist.friction, hist.d)
        IN  /\ Abs(hist.velocity) <= amount => hist.out = 0
            /\ Abs(hist.velocity) > amount =>
                   hist.out = hist.velocity - Sign(hist.velocity) * amount
            /\ Sign(hist.out) * Sign(hist.velocity) >= 0
            /\ Abs(hist.out) <= Abs(hist.velocity)

\* the second test: 10 px/s under friction 50 for 1 s stops at exactly 0
C21_Witness ==
    /\ pc = "return"
    /\ hist.velocity = PxPerSec(10) /\ hist.friction = 50 /\ hist.d = Ms(1000)
    /\ hist.out = 0


-----------------------------------------------------------------------------
(* One call of applyGravity of the second PhysicsComponent (the one with rise and   *)
(* fall limits).  Here physics is the body, and hist holds the body before the      *)
(* call, its gravity field and the elapsed time.                                    *)

\* vertical velocities in px/s: inside, on and outside the two limits
GravityVelocities ==
    {PxPerSec(-500), PxPerSec(-200), PxPerSec(-100), 0, PxPerSec(100),
     PxPerSec(190), PxPerSec(200), PxPerSec(400)}

\* the constructor's default, GameConfig.GRAVITY, in its two revisions
BodyGravities == {GRAVITY, 1200}

GravityDeltas == {0, DropDelta, 2 * DropDelta, Ms(1000)}

InitGravity ==
    /\ \E v \in GravityVelocities, g \in BOOLEAN :
            physics = [NewPhysics(Px(100), Px(100), PLAYER_WIDTH, PLAYER_HEIGHT)
                           EXCEPT !.vy = v, !.grounded = g]
    /\ \E gr \in BodyGravities, d \in GravityDeltas :
            hist = [pre |-> physics, gravity |-> gr, d |-> d]
    /\ movement = NewMovement
    /\ jumpBufferTime = 0
    /\ input = NewInput
    /\ rect = NoRect
    /\ delta = DropDelta
    /\ pc = "call"
    /\ ticks = 0

GravityCall ==
    /\ pc = "call"
    /\ physics' = applyGravityLimited(physics, hist.gravity, hist.d)
    /\ pc' = "return"
    /\ UNCHANGED <<movement, jumpBufferTime, input, rect, delta, ticks, hist>>

NextGravity == GravityCall

SpecGravity == InitGravity /\ [][NextGravity]_vars

-----------------------------------------------------------------------------
(* Properties of the limited applyGravity (SpecGravity) *)

Clamp(v, lo, hi) == IF v < lo THEN lo ELSE IF v > hi THEN hi ELSE v

\* C22: applyGravity with rise and fall limits.  When the body is airborne, velocity.y
\* after the call is old velocity.y + gravity * delta/1000 clamped into
\* [MAX_JUMP_SPEED, MAX_FALL_SPEED], so a value already inside the range is kept; when
\* the body is grounded, velocity.y after the call is 0.
C22_GravityLimits ==
    pc = "return" =>
        IF hist.pre.grounded
        THEN physics.vy = 0
        ELSE physics.vy = Clamp(hist.pre.vy + VelInc(hist.gravity, hist.d),
                                PxPerSec(MAX_JUMP_SPEED), PxPerSec(MAX_FALL_SPEED))


-----------------------------------------------------------------------------
(* One tick run twice from the same start: Player.update(time, delta), then         *)
(* PhysicsSystem.resolveTilemapCollision on the body.  Here physics, movement,      *)
(* jumpBufferTime, input and delta are the common start and stay as they are; hist  *)
(* holds what the keys answer in this tick, and for each run the time it is given,  *)
(* the Player, the InputManager's state for the jump action and its pressTime; pc   *)
(* holds each run's position.                                                       *)

Runs == {"a", "b"}

\* horizontal and vertical velocities of the controller at the start, px/s
TickVxs == {PxPerSec(-100), 0, PxPerSec(100)}

TickVys == {PxPerSec(JUMP_VELOCITY), 0}

TickTimers == {0, Ms(COYOTE_TIME_MS)}

\* elapsed times handed to update: negative, zero and one frame
TickDeltas == {-DropDelta, 0, DropDelta}

\* the time argument of the second run, the first run's being 0
TickTimes == {0, Ms(1000)}

TickDirections == {-1, 0, 1}

\* a Player.update that lets the buffer expire by the time argument
UpdateAtClocked(pl, inp, time, d) ==
    LET out == PlayerUpdate(pl, inp, d)
    IN  IF time > 0 THEN [out EXCEPT !.jumpBufferTime = 0] ELSE out

\* Player.update(time, delta): time goes to inputManager.update and nowhere else
UpdateAt(pl, inp, time, d) == PlayerUpdate(pl, inp, d)

\* InputManager.update(time): state.pressTime = time on justPressed
pressTimeAfter(pressTime, inp, time) == IF inp.justPressed THEN time ELSE pressTime

InitTick ==
    /\ \E s \in SpawnPoints, vx \in TickVxs, vy \in TickVys, pg \in BOOLEAN,
          mg \in BOOLEAN, c \in TickTimers :
          /\ physics = [NewPhysics(s[1], s[2], PLAYER_WIDTH, PLAYER_HEIGHT)
                            EXCEPT !.vx = vx, !.vy = vy, !.grounded = pg]
          /\ movement = [vx |-> vx, vy |-> vy, grounded |-> mg, coyoteTimeRemaining |-> c]
    /\ jumpBufferTime \in TickTimers
    /\ \E held \in BOOLEAN : input = [NewInput EXCEPT !.isPressed = held]
    /\ rect = NoRect
    /\ delta \in TickDeltas
    /\ pc = [r \in Runs |-> "update"]
    /\ ticks = 0
    /\ \E keyDown \in BOOLEAN, axis \in TickDirections, t \in TickTimes :
          hist = [keyDown |-> keyDown, axis |-> axis,
                  time |-> [r \in Runs |-> IF r = "a" THEN 0 ELSE t],
                  run |-> [r \in Runs |->
                             [pl |-> ThePlayer, input |-> input, pressTime |-> 0]]]

\* Player.update of run r
RunUpdate(r) ==
    /\ pc[r] = "update"
    /\ LET inp == InputManagerUpdate(hist.run[r].input, hist.keyDown, hist.axis)
           pl == UpdateAt(hist.run[r].pl, inp, hist.time[r], delta)
       IN  hist' = [hist EXCEPT !.run[r] =
                       [pl |-> pl, input |-> inp,
                        pressTime |-> pressTimeAfter(hist.run[r].pressTime, inp, hist.time[r])]]
    /\ pc' = [pc EXCEPT ![r] = "collide"]
    /\ UNCHANGED <<physics, movement, jumpBufferTime, input, rect, delta, ticks>>

\* PhysicsSystem.resolveTilemapCollision of run r
RunCollide(r) ==
    /\ pc[r] = "collide"
    /\ hist' = [hist EXCEPT !.run[r].pl.physics = resolveTilemapCollision(@)]
    /\ pc' = [pc EXCEPT ![r] = "done"]
    /\ UNCHANGED <<physics, movement, jumpBufferTime, input, rect, delta, ticks>>

NextTick == \E r \in Runs : RunUpdate(r) \/ RunCollide(r)

SpecTick == InitTick /\ [][NextTick]_vars

-----------------------------------------------------------------------------
(* Properties of one tick (SpecTick) *)

\* C23: a tick with zero or negative elapsed time is a no-op for position.  For every
\* delta <= 0 and every velocity, when Player.update returns, position.x and
\* position.y are what they were when it was called.
C23_NoOpTick ==
    \A r \in Runs :
        (pc[r] = "collide" /\ delta <= 0) =>
            /\ hist.run[r].pl.physics.px = physics.px
            /\ hist.run[r].pl.physics.py = physics.py

-----------------------------------------------------------------------------
(* InputManager.update called once per tick.  Here input is the jump action's       *)
(* InputState, ticks counts the updates, and hist holds what checkActionPressed     *)
(* answered in the last update (keyDown) and in the one before (prevDown, false     *)
(* before the first: the constructor's isPressed), and the InputState the last      *)
(* update started from (prev).                                                      *)

MaxInputUpdates == 6

InitInput ==
    /\ input = NewInput
    /\ hist = [keyDown |-> FALSE, prevDown |-> FALSE, prev |-> NewInput]
    /\ physics = NewPhysics(Px(0), Px(0), PLAYER_WIDTH, PLAYER_HEIGHT)
    /\ movement = NewMovement
    /\ jumpBufferTime = 0
    /\ rect = NoRect
    /\ delta = DropDelta
    /\ pc = "input"
    /\ ticks = 0

InputUpdate(keyDown, axis) ==
    /\ pc = "input"
    /\ ticks < MaxInputUpdates
    /\ input' = InputManagerUpdate(input, keyDown, axis)
    /\ hist' = [keyDown |-> keyDown, prevDown |-> hist.keyDown, prev |-> input]
    /\ ticks' = ticks + 1
    /\ UNCHANGED <<physics, movement, jumpBufferTime, rect, delta, pc>>

NextInput == \E keyDown \in BOOLEAN, axis \in TickDirections : InputUpdate(keyDown, axis)

SpecInput == InitInput /\ [][NextInput]_vars

-----------------------------------------------------------------------------
(* Properties of InputManager.update (SpecInput) *)

\* C25: input edges last exactly one tick.  justPressed is true in exactly the first
\* update in which the action is down after one in which it was up, justReleased in
\* exactly the first update in which it is up after being down; neither is true in
\* two consecutive updates, and the two are never true in the same update.
C25_OneTickEdges ==
    ticks > 0 =>
        /\ input.justPressed <=> (hist.keyDown /\ ~hist.prevDown)
        /\ input.justReleased <=> (~hist.keyDown /\ hist.prevDown)
        /\ ~(input.justPressed /\ hist.prev.justPressed)
        /\ ~(input.justReleased /\ hist.prev.justReleased)
        /\ ~(input.justPressed /\ input.justReleased)

\* the key is held through two updates: the first reported the press, the second
\* reports none
C25_Witness ==
    /\ ticks >= 2
    /\ hist.keyDown /\ hist.prevDown
    /\ hist.prev.justPressed
    /\ input.isPressed /\ ~input.justPressed


-----------------------------------------------------------------------------
(* Properties of GameScene.handleCollisions (Spec) *)

\* C26: landing notification.  In every GameScene tick, Player.onLand runs exactly when
\* grounded was false before the terrain pass and is true after it; it does not run
\* when the body was already grounded before the pass or is airborne after it.
C26_LandingNotification ==
    [][pc = "collide" =>
          (hist'.landed <=> (~physics.grounded /\ physics'.grounded))]_vars

\* a tick has just ended in which the pass grounded a body that was airborne, and
\* onLand ran
C26_Witness ==
    /\ pc = "update" /\ ticks > 0
    /\ ~hist.pre.physics.grounded
    /\ physics.grounded
    /\ hist.landed


-----------------------------------------------------------------------------
(* One call of the two-pass resolveTilemapCollision on a body over the floor and    *)
(* the ledge.  Here physics is the body, and hist holds the body before the call    *)
(* (pre), the body as the vertical pass and the probe left it (mid), and whether    *)
(* the vertical pass landed the body and whether the probe kept it grounded.        *)

\* how far one frame of gravity from rest sinks a body
Sink == Disp(VelInc(GRAVITY, DropDelta), DropDelta)

\* centres: over the floor left of the ledge, off the ledge with the floor a tile
\* below, beside the ledge (right edge 1 px from it, and half a pixel into it), and
\* over the ledge
TwoPassXs == {Px(48), Px(100), Px(111), [p |-> 112, n |-> Nano \div 2], Px(144)}

\* centres whose bottom is PHYSICS_EPSILON above, on, and one frame of gravity into
\* the ledge's top (128) and the floor's top (160), one half a pixel into the ledge's
\* top, and one in the air
TwoPassYs ==
    {LSub(Px(104), PHYSICS_EPSILON), Px(104), LAdd(Px(104), Sink),
     [p |-> 104, n |-> Nano \div 2],
     LSub(Px(136), PHYSICS_EPSILON), Px(136), LAdd(Px(136), Sink), Px(60)}

TwoPassVxs == {PxPerSec(-100), 0, PxPerSec(100)}

\* rising with the jump velocity, at rest, and after one frame of gravity
TwoPassVys == {PxPerSec(JUMP_VELOCITY), 0, VelInc(GRAVITY, DropDelta)}

InitTwoPass ==
    /\ \E x \in TwoPassXs, y \in TwoPassYs, vx \in TwoPassVxs, vy \in TwoPassVys,
          g \in BOOLEAN :
          physics = [NewPhysics(x, y, PLAYER_WIDTH, PLAYER_HEIGHT)
                         EXCEPT !.vx = vx, !.vy = vy, !.grounded = g]
    /\ hist = [pre |-> physics, mid |-> physics, landed |-> FALSE, found |-> FALSE]
    /\ movement = NewMovement
    /\ jumpBufferTime = 0
    /\ input = NewInput
    /\ rect = NoRect
    /\ delta = DropDelta
    /\ pc = "call"
    /\ ticks = 0

TwoPassCall ==
    /\ pc = "call"
    /\ LET r == resolveTilemapCollisionTwoPass(physics)
       IN  /\ physics' = r.out
           /\ hist' = [pre |-> physics, mid |-> r.mid, landed |-> r.landed, found |-> r.found]
    /\ pc' = "return"
    /\ UNCHANGED <<movement, jumpBufferTime, input, rect, delta, ticks>>

NextTwoPass == TwoPassCall

SpecTwoPass == InitTwoPass /\ [][NextTwoPass]_vars

-----------------------------------------------------------------------------
(* Properties of the two-pass resolveTilemapCollision (SpecTwoPass) *)

\* a solid tile whose top is within the probe's 2 px of the body's bottom and which
\* the body stands over
TileUnder(b) ==
    \E x \in 0..7, y \in 4..5 :
        /\ Solid(x, y)
        /\ LLt(LAbs(LSub(LAddPx(b.py, b.h \div 2), TileBounds(x, y).y)), Px(2))
        /\ SpansOverlap(BodyBounds(b).x, b.w, TileBounds(x, y).x, TILE_SIZE)

\* C27: grounded state machine of the two-pass resolveTilemapCollision.  When the call
\* returns, grounded is true only if the vertical pass landed the body on a tile top
\* or the retention probe found a tile top within tolerance of the body's bottom; in
\* particular a body that was grounded, is not moving upward and has no solid tile
\* under it is airborne when the call returns.
C27_GroundedOnlyBySupport ==
    pc = "return" =>
        /\ physics.grounded => (hist.landed \/ hist.found)
        /\ (hist.pre.grounded /\ hist.pre.vy >= 0 /\ ~TileUnder(hist.pre))
               => ~physics.grounded

\* C29: the horizontal pass of the two-pass resolveTilemapCollision never changes
\* grounded: grounded when the call returns is grounded as the vertical pass and the
\* retention probe left it, whether or not a wall was hit.
C29_HorizontalKeepsGrounded ==
    pc = "return" => physics.grounded = hist.mid.grounded

\* the horizontal pass pushed a grounded body out of the ledge's side and stopped it,
\* and the body is still grounded
C29_Witness ==
    /\ pc = "return"
    /\ hist.mid.grounded /\ physics.grounded
    /\ hist.mid.vx > 0 /\ physics.vx = 0
    /\ LLt(physics.px, hist.mid.px)


-----------------------------------------------------------------------------
(* One call of resolveTilemapCollision of PhysicsSystem.new.ts.  Here physics is    *)
(* the body, and hist holds the body before the call (pre), whether the vertical    *)
(* test hit a tile and whether the ground check grounded the body.                  *)

\* centres over the floor, off the ledge, and over the ledge
NewXs == {Px(48), Px(100), Px(144)}

\* centres whose bottom is on the floor's top (160) and on the ledge's top (128), as
\* this call leaves a landed body, 2 px above the floor, and in the air
NewYs == {Px(136), Px(134), Px(104), Px(60)}

NewVxs == {PxPerSec(-100), 0, PxPerSec(100)}

\* rising with the jump velocity, at rest, and falling
NewVys == {PxPerSec(JUMP_VELOCITY), 0, PxPerSec(100)}

InitNew ==
    /\ \E x \in NewXs, y \in NewYs, vx \in NewVxs, vy \in NewVys, g \in BOOLEAN :
          physics = [NewPhysics(x, y, PLAYER_WIDTH, PLAYER_HEIGHT)
                         EXCEPT !.vx = vx, !.vy = vy, !.grounded = g]
    /\ hist = [pre |-> physics, hasVerticalCollision |-> FALSE, found |-> FALSE]
    /\ movement = NewMovement
    /\ jumpBufferTime = 0
    /\ input = NewInput
    /\ rect = NoRect
    /\ delta = DropDelta
    /\ pc = "call"
    /\ ticks = 0

NewCall ==
    /\ pc = "call"
    /\ LET r == resolveTilemapCollisionNew(physics)
       IN  /\ physics' = r.out
           /\ hist' = [pre |-> physics, hasVerticalCollision |-> r.hasVerticalCollision,
                       found |-> r.found]
    /\ pc' = "return"
    /\ UNCHANGED <<movement, jumpBufferTime, input, rect, delta, ticks>>

NextNew == NewCall

SpecNew == InitNew /\ [][NextNew]_vars

-----------------------------------------------------------------------------
(* Properties of resolveTilemapCollision of PhysicsSystem.new.ts (SpecNew) *)

\* C28: the grounded-retention probe is applied only when no vertical collision was
\* found, the body was grounded on the previous tick and the body is not moving
\* upward.  A grounded body that starts the call with the upward jump velocity and
\* has no ceiling above it ends the call airborne and displaced upward, not snapped
\* back onto the floor with velocity.y = 0.
C28_JumpLeavesGround ==
    pc = "return" =>
        /\ hist.found =>
               /\ ~hist.hasVerticalCollision
               /\ hist.pre.grounded
               /\ hist.pre.vy + FrameGravity >= 0
        /\ (hist.pre.grounded /\ hist.pre.vy = JumpVel) =>
               /\ ~physics.grounded
               /\ LLt(physics.py, hist.pre.py)
               /\ physics.vy < 0


-----------------------------------------------------------------------------
(* One call of PhysicsSystem.resolveTilemapCollision on a body that stands on the   *)
(* floor left of the ledge and moves along it.  The floor's tiles are flush, with   *)
(* seams at x = 32, 64 and 96; the body is as wide as a tile.  Here physics is the  *)
(* body and hist holds the body before the call.                                    *)

\* a tenth of a pixel
Tenth == [p |-> 0, n |-> Nano \div 10]

\* centres that put the body's left edge a tenth of a pixel left of a seam, on it, a
\* tenth right of it, and well inside a tile
SeamXs ==
    {LSub(Px(48), Tenth), Px(48), LAdd(Px(48), Tenth), Px(60), Px(70),
     LSub(Px(80), Tenth), Px(80), LAdd(Px(80), Tenth), Px(90)}

\* bottoms PHYSICS_EPSILON above the floor's top (as a landing leaves the body), one
\* frame of gravity into it, and 1 px into it
SeamYs == {LSub(Px(136), PHYSICS_EPSILON), LAdd(Px(136), Sink), Px(137)}

SeamVxs == {PxPerSec(-100), PxPerSec(100)}

SeamVys == {0, VelInc(GRAVITY, DropDelta)}

InitSeam ==
    /\ \E x \in SeamXs, y \in SeamYs, vx \in SeamVxs, vy \in SeamVys, g \in BOOLEAN :
          physics = [NewPhysics(x, y, PLAYER_WIDTH, PLAYER_HEIGHT)
                         EXCEPT !.vx = vx, !.vy = vy, !.grounded = g]
    /\ hist = [pre |-> physics]
    /\ movement = NewMovement
    /\ jumpBufferTime = 0
    /\ input = NewInput
    /\ rect = NoRect
    /\ delta = DropDelta
    /\ pc = "call"
    /\ ticks = 0

SeamCall ==
    /\ pc = "call"
    /\ physics' = resolveTilemapCollision(physics)
    /\ hist' = [pre |-> physics]
    /\ pc' = "return"
    /\ UNCHANGED <<movement, jumpBufferTime, input, rect, delta, ticks>>

NextSeam == SeamCall

SpecSeam == InitSeam /\ [][NextSeam]_vars

-----------------------------------------------------------------------------
(* Properties of resolveTilemapCollision on a flat floor (SpecSeam) *)

\* the body is over floor tiles only: its right edge is left of the ledge
OverFlatFloor(b) == LLt(LAddPx(BodyBounds(b).x, b.w), TileBounds(4, 4).x)

\* C30: no catching on floor seams.  A body standing on a flat run of flush solid
\* tiles and moving horizontally along it is never pushed horizontally, and never has
\* its horizontal velocity zeroed, by a floor tile during resolveTilemapCollision,
\* whatever its position relative to the seams between the tiles.
C30_NoSeamCatch ==
    (pc = "return" /\ OverFlatFloor(hist.pre) /\ hist.pre.vx # 0) =>
        /\ physics.px = hist.pre.px
        /\ physics.vx = hist.pre.vx


-----------------------------------------------------------------------------
(* More properties of the two-pass resolveTilemapCollision (SpecTwoPass) *)

\* the solid tiles the body's bounds overlap
OverlappedTiles(b) ==
    {c \in (0..7) \X (4..5) :
        Solid(c[1], c[2]) /\ checkAABBCollision(BodyBounds(b), TileBounds(c[1], c[2]))}

\* the smallest of the four side penetrations of the body into the tile
LeastPenetration(b, c) ==
    LET bb == BodyBounds(b)
        t == TileBounds(c[1], c[2])
    IN  LMin(LMin(LSub(LAddPx(bb.x, bb.width), t.x), LSub(LAddPx(t.x, t.width), bb.x)),
             LMin(LSub(LAddPx(bb.y, bb.height), t.y), LSub(LAddPx(t.y, t.height), bb.y)))

\* C31: the two-pass resolveTilemapCollision resolves a shallow overlap in one call.  A
\* body that starts the call overlapping exactly one solid tile, by less than one tile
\* size along its least-penetration axis, does not overlap that tile when the call
\* returns, also when the horizontal and vertical penetrations are equal.
C31_ShallowOverlapResolved ==
    pc = "return" =>
        \A c \in OverlappedTiles(hist.pre) :
            (OverlappedTiles(hist.pre) = {c}
                /\ LLt(LeastPenetration(hist.pre, c), Px(TILE_SIZE)))
            => c \notin OverlappedTiles(physics)


-----------------------------------------------------------------------------
(* Properties of the order of the steps of a tick (Spec) *)

\* C32: tick ordering.  In every Player.update the controller's velocity is copied
\* into the body, then gravity is applied to the body, then position is integrated;
\* so in a tick where the body is airborne, the velocity.y that integrates position
\* includes that tick's gravity increment.
C32_GravityBeforeIntegration ==
    (pc = "collide" /\ ~hist.pre.physics.grounded) =>
        LET copied == [hist.pre.physics EXCEPT !.vx = movement.vx, !.vy = movement.vy]
            fallen == applyGravity(copied, delta)
        IN  /\ physics.vy = fallen.vy
            /\ physics.py = LAdd(hist.pre.physics.py, Disp(fallen.vy, delta))

\* C33: body velocity and controller velocity stay synchronised.  After every complete
\* tick (Player.update, then the terrain pass) movement.velocity equals the body's
\* velocity on both axes, so a component that collision resolution zeroed is still
\* zero when the next tick integrates position.
C33_VelocitiesInSync ==
    (pc = "update" /\ ticks > 0) =>
        /\ movement.vx = physics.vx
        /\ movement.vy = physics.vy

----------------------------------------------------------------------------
(* One tick of the later Player with the projecting terrain pass (SpecLater):       *)
(* Player.update, then resolveTilemapCollision on the Player's body.                *)

\* centre and grounded flag at the start of the tick: in the air with no tile
\* within the terrain pass's search, in the air above the floor, standing on the
\* floor and standing on the ledge
LaterStarts ==
    {<<Px(48), Px(40), FALSE>>, <<Px(48), Px(60), FALSE>>, <<Px(100), Px(120), FALSE>>,
     <<Px(48), Px(136), TRUE>>, <<Px(144), Px(104), TRUE>>}

LaterVxs == {0, PxPerSec(100)}

LaterVys == {PxPerSec(-100), 0, PxPerSec(100)}

LaterDeltas == {DropDelta, 2 * DropDelta}

InitLater ==
    /\ \E s \in LaterStarts, vx \in LaterVxs, vy \in LaterVys :
          /\ physics = [NewPhysics(s[1], s[2], PLAYER_WIDTH, PLAYER_HEIGHT)
                            EXCEPT !.vx = vx, !.vy = IF s[3] THEN 0 ELSE vy,
                                   !.grounded = s[3]]
          /\ movement = [NewMovement EXCEPT !.vx = vx, !.vy = IF s[3] THEN 0 ELSE vy,
                                            !.grounded = s[3]]
    /\ jumpBufferTime = 0
    /\ \E down \in BOOLEAN : input = [NewInput EXCEPT !.isPressed = down]
    /\ rect = NoRect
    /\ delta \in LaterDeltas
    /\ pc = "update"
    /\ ticks = 0
    /\ hist = [pre |-> physics, mid |-> physics]

LaterUpdate ==
    /\ pc = "update"
    /\ \E keyDown \in BOOLEAN, axis \in Axes :
          LET inp == InputManagerUpdate(input, keyDown, axis)
              pl == PlayerUpdateLater(ThePlayer, inp, delta)
          IN  /\ input' = inp
              /\ physics' = pl.physics
              /\ movement' = pl.movement
              /\ jumpBufferTime' = pl.jumpBufferTime
              /\ hist' = [pre |-> physics, mid |-> pl.physics]
    /\ pc' = "collide"
    /\ UNCHANGED <<rect, delta, ticks>>

LaterCollide ==
    /\ pc = "collide"
    /\ physics' = resolveTilemapCollisionProjected(physics)
    /\ pc' = "done"
    /\ ticks' = ticks + 1
    /\ UNCHANGED <<movement, jumpBufferTime, input, rect, delta, hist>>

NextLater == LaterUpdate \/ LaterCollide

SpecLater == InitLater /\ [][NextLater]_vars

----------------------------------------------------------------------------
(* Properties of the later tick (SpecLater) *)

\* C34: position is integrated exactly once per tick.  In a tick where the terrain
\* pass finds no solid tile in its search around the body, Player.update followed
\* by the projecting resolveTilemapCollision changes the position by exactly
\* velocity x elapsed seconds on each axis, the velocity being the one
\* updatePosition integrated and the elapsed time the tick's delta.
C34_IntegratedOnce ==
    (pc = "done" /\ ProjectedTiles(ProjectedNext(hist.mid).bounds) = <<>>) =>
        /\ physics.px = LAdd(hist.pre.px, Disp(hist.mid.vx, delta))
        /\ physics.py = LAdd(hist.pre.py, Disp(hist.mid.vy, delta))

----------------------------------------------------------------------------
(* Further properties of resolveCollision (SpecResolve) *)

\* C35: resolveCollision separates the pair.  After a call that returned
\* collided = true the body's bounds no longer overlap the rectangle, and the same
\* call repeated at once returns collided = false and changes nothing.
C35_Separates ==
    (pc = "again" /\ hist.res.collided) =>
        /\ ~InteriorsOverlap(BodyBounds(hist.first), rect)
        /\ ~hist.again.collided
        /\ physics = hist.first

\* a first call that collided and moved the body, followed by the repeated call
C35_Witness ==
    /\ pc = "again"
    /\ hist.res.collided
    /\ hist.first # hist.pre
    /\ hist.again = NoCollision

Penetrations ==
    LET bb == BodyBounds(hist.pre)
    IN  [left |-> LSub(LAddPx(bb.x, bb.width), rect.x),
         right |-> LSub(LAddPx(rect.x, rect.width), bb.x),
         top |-> LSub(LAddPx(bb.y, bb.height), rect.y),
         bottom |-> LSub(LAddPx(rect.y, rect.height), bb.y)]

\* a moved by k times d, k in {-1, 0, 1}
Shifted(a, k, d) == IF k = 1 THEN LAdd(a, d) ELSE IF k = -1 THEN LSub(a, d) ELSE a

\* C37: a reported collision moves the body along exactly one axis, by the reported
\* overlap plus PHYSICS_EPSILON in the direction of the returned normal; the
\* reported overlap is the least of the four penetrations; the other coordinate, the
\* velocity on the other axis and the size are unchanged; grounded changes only
\* when the returned side is 'bottom'.
C37_OneAxisPush ==
    (pc = "return" /\ hist.res.collided) =>
        LET n == hist.res.normal
            push == LAdd(hist.res.overlap, PHYSICS_EPSILON)
        IN  /\ n \in {<<-1, 0>>, <<1, 0>>, <<0, -1>>, <<0, 1>>}
            /\ hist.res.overlap = LMin(LMin(Penetrations.left, Penetrations.right),
                                       LMin(Penetrations.top, Penetrations.bottom))
            /\ physics.px = Shifted(hist.pre.px, n[1], push)
            /\ physics.py = Shifted(hist.pre.py, n[2], push)
            /\ n[1] # 0 => physics.vy = hist.pre.vy
            /\ n[2] # 0 => physics.vx = hist.pre.vx
            /\ physics.w = hist.pre.w /\ physics.h = hist.pre.h
            /\ physics.grounded # hist.pre.grounded => hist.res.side = "bottom"

\* a grounded body moving down and to the right, pushed left out of a wall: it
\* keeps its velocity.y and its grounded flag
C37_Witness ==
    /\ pc = "return"
    /\ hist.res.collided
    /\ hist.res.side = "right"
    /\ hist.pre.grounded /\ physics.grounded
    /\ hist.pre.vy > 0 /\ physics.vy = hist.pre.vy
    /\ LLt(physics.px, hist.pre.px)

----------------------------------------------------------------------------
(* Further properties of the game loop (Spec) *)

\* C38: jumps never outnumber presses.  Over any sequence of ticks the number of
\* executed jumps is at most the number of jump press edges the updates observed.
C38_JumpsWithinPresses ==
    hist.jumps <= hist.presses

\* two presses, each followed by its jump
C38_Witness ==
    /\ hist.jumps = 2
    /\ hist.presses = 2

\* C39: the grounded mirror.  Under the game loop, at the start of every
\* Player.update the controller's grounded flag is true whenever the body's grounded
\* flag is true, so canJump() is true in every update that begins with the body
\* grounded.
C39_GroundedMirror ==
    (pc = "update" /\ physics.grounded) =>
        /\ movement.grounded
        /\ canJump(movement)

\* an update about to begin after a terrain pass that landed the body: the update
\* before left both flags false, and onLand set the mirror
C39_Witness ==
    /\ pc = "update"
    /\ ticks > 0
    /\ hist.landed
    /\ physics.grounded
    /\ movement.grounded

----------------------------------------------------------------------------
(* A MovementComponent that receives move(0, delta) on every tick (SpecRest).  The  *)
(* game loop calls Player.update, and so move, once per frame for as long as the    *)
(* scene runs: the calls are weakly fair.  Here hist holds velocity.x before the    *)
(* last call and that call's delta.                                                 *)

\* velocity.x in px/s when the input stops: the speed limit either way, the
\* velocities of the friction tests (100, 10) and their opposites, and rest
RestVelocities == {PxPerSec(k) : k \in {-MAX_SPEED, -100, -10, 0, 10, 100, MAX_SPEED}}

\* tick lengths in hundredths of a millisecond: 10 ms, a 60 Hz frame, a 30 Hz frame
RestDeltas == {1000, DropDelta, 2 * DropDelta}

InitRest ==
    /\ \E v \in RestVelocities : movement = [NewMovement EXCEPT !.vx = v]
    /\ physics = NewPhysics(Px(0), Px(0), PLAYER_WIDTH, PLAYER_HEIGHT)
    /\ jumpBufferTime = 0
    /\ input = NewInput
    /\ rect = NoRect
    /\ delta \in RestDeltas
    /\ pc = "rest"
    /\ ticks = 0
    /\ hist = [called |-> FALSE, pre |-> movement.vx, d |-> delta]

RestMove(d) ==
    /\ pc = "rest"
    /\ movement' = move(movement, 0, d)
    /\ delta' = d
    /\ hist' = [called |-> TRUE, pre |-> movement.vx, d |-> d]
    /\ UNCHANGED <<physics, jumpBufferTime, input, rect, pc, ticks>>

NextRest == \E d \in RestDeltas : RestMove(d)

SpecRest == InitRest /\ [][NextRest]_vars /\ WF_vars(NextRest)

\* C40: friction brings the body to rest.  With zero horizontal input on every
\* tick, positive friction and positive tick lengths, the controller's velocity.x
\* reaches exactly 0 after finitely many move calls and stays 0 from then on, and
\* on the way no call changes its sign.
C40_FrictionBringsToRest ==
    /\ <>[](movement.vx = 0)
    /\ [][/\ movement.vx = 0 => movement'.vx = 0
          /\ movement'.vx = 0 \/ Sign(movement'.vx) = Sign(movement.vx)]_vars

\* a call that found a velocity smaller than its friction step and snapped it to 0
C40_Witness ==
    /\ hist.called
    /\ hist.pre # 0
    /\ Abs(hist.pre) < VelInc(FRICTION, hist.d)
    /\ movement.vx = 0

====
